---- MODULE Spec2Model ----
(***************************************************************************)
(* Model of the zenote sleep tracker (src/js/sleep.js) and of the journal  *)
(* date key (src/js/journal.js).                                           *)
(*                                                                         *)
(* Representation.                                                         *)
(*   - An instant (a JS Date's time value) is a number of minutes since    *)
(*     the Unix epoch, UTC.  The code works in milliseconds; every instant *)
(*     the model visits is a whole minute.                                 *)
(*   - tz is the zone's offset east of UTC in minutes, so that             *)
(*     Date.prototype.getTimezoneOffset() is -tz.                          *)
(*   - A date text "YYYY-MM-DD" is the triple <<year, month, day>>; the    *)
(*     zero padding of the text is implied (years have four digits).       *)
(*   - A time text "HH:MM" is the pair <<hours, minutes>>; the empty text  *)
(*     of an unfilled input is <<>>.                                       *)
(*   - A duration text such as "8.5" (the result of toFixed(1)) is the     *)
(*     number of tenths of an hour, 85.                                    *)
(*   - null is Null.  A stored item is Null when the key is absent and     *)
(*     <<v>>, the JSON text of v, otherwise.                               *)
(***************************************************************************)
EXTENDS Integers, Sequences, FiniteSets, TLC

VARIABLES
    now,            \* the wall clock: what new Date() returns
    tz,             \* the local zone's offset east of UTC, in minutes
    localStorage,   \* the persistent store: key -> Null or <<value>>
    pageOpen,       \* the sleep page's script has been loaded and init() has run
    initPending,    \* the sleep page's script has registered init() for
                    \* DOMContentLoaded (sleep.js:620) and the event is yet to come
    sleepLogs,      \* sleep.js:41, the in-memory collection
    currentWeek,    \* sleep.js:42, the in-memory week marker
    lastOp,         \* history: the operation that produced this state
    resetLog,       \* history: the local Monday (day number) of every weekly reset
    dSleep,         \* calculateDuration's sleepTime argument
    dWake,          \* calculateDuration's wakeTime argument
    dResult,        \* calculateDuration's result, NoResult before the call
    swal,           \* the sleep page's SweetAlert modal: its icon and confirm button
    weeklyStats,    \* the sleep page's average and nights-tracked texts
    chartData,      \* sleepChart.data.datasets[0].data
    uncaught,       \* the scripts of which an exception went uncaught since
                    \* their page was loaded
    state,          \* todo.js:2-10, the task page's state object
    todoOpen,       \* the task page's init() has run to its end
    timers,         \* the task page's pending setTimeout calls: their due instants
    taskForm,       \* the task modal: whether it has the class "active", and what
                    \* its title input and its type select hold
    msec,           \* the clock's milliseconds: Date.now() is now * 60000 + msec
    currentDate,    \* journal.js:55, the date the journal page shows
    journalOpen,    \* the journal page's initJournal() has run
    loadPending,    \* the journal page's script has registered initJournal() for
                    \* the window's load event (journal.js:856), yet to come
    journalSwal,    \* the journal page's modal: "none", "warning", "success"
    calendar,       \* the journal page's calendar section: shown or not, and the
                    \* click listeners on each of its two month buttons
    isDragging,     \* journal.js:50
    isResizing,     \* journal.js:51
    isRotating,     \* journal.js:52
    startAngle,     \* journal.js:53, in degrees
    startMouseAngle, \* journal.js:54, in quarter turns (Math.PI / 2)
    offset,         \* journal.js:49, the pointer's offset inside the dragged overlay
    currentElement, \* journal.js:48: NoElement (null), the place among the overlays
                    \* of the element it refers to, or an element taken out of
                    \* the page: Removed, RemovedFixed
    overlays,       \* the journal section's .draggable-image elements in document
                    \* order: their style, size and class
    moveListeners,  \* the document's mousemove and touchmove listeners in the
                    \* order they were added
    bounds,         \* the journal section's getBoundingClientRect()
    quoteBox,       \* the home page's quote box: its textContent
    promise,        \* the home page's fetch chain: its stage and the value it carries
    search,         \* the home page's search bar, its results box and its debounce timer
    otherTab        \* a second tab on the same store: its pages' in-memory state

\* The sleep page's rendered output.
viewVars == <<swal, weeklyStats, chartData>>
\* The task page.
todoVars == <<state, todoOpen, timers, taskForm>>
\* The sleep page's module state, history and output.
sleepVars == <<pageOpen, initPending, sleepLogs, currentWeek, resetLog, dSleep, dWake, dResult, viewVars>>
\* The journal page's pointer gestures.
gestureVars == <<isDragging, isResizing, isRotating, startAngle, startMouseAngle, offset,
                 moveListeners>>
\* The journal page's image overlays and the gestures on them.
dragVars == <<gestureVars, currentElement, overlays, bounds>>
\* The journal page.
journalVars == <<currentDate, journalOpen, loadPending, journalSwal, calendar, dragVars>>
\* The home page's quote widget.
quoteVars == <<quoteBox, promise>>
\* What the sleep page's handlers never touch.
nonSleepVars == <<todoVars, journalVars, quoteVars, search, otherTab>>
\* What the task page's handlers never touch, the store apart.
nonTodoVars == <<sleepVars, journalVars, quoteVars, search, otherTab>>
\* What the journal page's handlers never touch, the store apart.
nonJournalVars == <<sleepVars, todoVars, quoteVars, search, otherTab>>
\* What the home page's scripts never touch.
nonHomeVars == <<sleepVars, todoVars, journalVars, otherTab>>
\* What the quote widget's fetch chain never touches.
nonQuoteVars == <<nonHomeVars, search>>

vars == <<now, tz, localStorage, pageOpen, initPending, sleepLogs, currentWeek, lastOp,
          resetLog, dSleep, dWake, dResult, viewVars, uncaught, nonSleepVars, msec>>

Null == <<>>
NoResult == 0 - 1

\* ------------------------------------------------------------------ bounds
\* The clock runs for HorizonDays days from StartInstant.
HorizonDays == 5
\* saveSleepLog is offered while the collection holds fewer than MaxLogs logs
\* (an overwrite of today's log is always offered).
MaxLogs == 2
\* A collection the store holds at the start (CollectionSpec) has at most
\* MaxStored logs.
MaxStored == 3
\* The journal's run (JournalSpec) lasts JournalHorizonDays days.
JournalHorizonDays == 1
\* The task page's run (TodoSpec) lasts TodoHorizonDays days, with at most
\* MaxClicks clicks on its buttons.
TodoHorizonDays == 2
MaxClicks == 3
\* The sequences of completeTask operations that are followed from a state
\* have at most MaxCompletions operations.
MaxCompletions == 3

MinutesPerDay == 24 * 60

\* ------------------------------------------------- the JS Date built-ins
\* Bind(v, F) is F applied to the value of v: "const x = v; F(x)".  The
\* value is computed once, however often F uses it.
Bind(v, F(_)) == CHOOSE r \in {F(x) : x \in {v}} : TRUE

\* Day number (days since 1970-01-01) of the proleptic Gregorian date
\* y-m-d.  d may lie outside the month: the result is the day number of
\* y-m-1 plus d - 1, as in new Date(y, m - 1, d) and Date.prototype.setDate.
DaysFromCivil[y \in Int, m \in Int, d \in Int] ==
    LET yy  == IF m <= 2 THEN y - 1 ELSE y
        mp  == IF m > 2 THEN m - 3 ELSE m + 9
        doy == (153 * mp + 2) \div 5 + d - 1
    IN  (yy \div 400) * 146097
            + (yy % 400) * 365 + (yy % 400) \div 4 - (yy % 400) \div 100 + doy
            - 719468

\* The date <<y, m, d>> of a day number z, step by step: the day of the
\* 400-year era (doe), the year of the era (yoe), the day of the year
\* counted from March 1 (doy), the month counted from March (mp).
CivilFromMp[y0 \in Int, doy \in Int, mp \in Int] ==
    LET m == IF mp < 10 THEN mp + 3 ELSE mp - 9
    IN  <<y0 + (IF m <= 2 THEN 1 ELSE 0), m, doy - (153 * mp + 2) \div 5 + 1>>
CivilFromDoy[y0 \in Int, doy \in Int] ==
    CivilFromMp[y0, doy, (5 * doy + 2) \div 153]
CivilFromYoe[era \in Int, doe \in Int, yoe \in Int] ==
    CivilFromDoy[yoe + era * 400, doe - (365 * yoe + yoe \div 4 - yoe \div 100)]
CivilFromDoe[era \in Int, doe \in Int] ==
    CivilFromYoe[era, doe,
                 (doe - doe \div 1460 + doe \div 36524 - doe \div 146096) \div 365]
CivilFromDays[z \in Int] ==
    CivilFromDoe[(z + 719468) \div 146097, (z + 719468) % 146097]

\* Date.prototype.getTimezoneOffset(): minutes to add to local time to get UTC.
getTimezoneOffset == 0 - tz

\* The local day number and the local minute of the day of instant t.
LocalDay(t) == (t + tz) \div MinutesPerDay
LocalMinuteOfDay(t) == (t + tz) % MinutesPerDay

getFullYear(t) == CivilFromDays[LocalDay(t)][1]
\* 0-based, as in JS
getMonth(t) == CivilFromDays[LocalDay(t)][2] - 1
getDate(t) == CivilFromDays[LocalDay(t)][3]
\* 0 (Sun) to 6 (Sat); 1970-01-01 was a Thursday
getDay(t) == (LocalDay(t) + 4) % 7

\* new Date(year, monthIndex, day): local midnight of that date
NewDate(year, monthIndex, day) ==
    DaysFromCivil[year, monthIndex + 1, day] * MinutesPerDay - tz

\* date.setDate(day): same local year, month and time of day, day replaced
setDate[t \in Int, day \in Int] ==
    DaysFromCivil[getFullYear(t), getMonth(t) + 1, day] * MinutesPerDay
        + LocalMinuteOfDay(t) - tz

\* date.setHours(0, 0, 0, 0)
setHoursZero(t) == LocalDay(t) * MinutesPerDay - tz

\* date.toISOString().split('T')[0]: the UTC date of the instant
toISODate(t) == CivilFromDays[t \div MinutesPerDay]

\* ------------------------------------------------------------ the store
\* String(n).padStart(2, '0'), 0 <= n <= 99
PadStart2(n) == IF n < 10 THEN "0" \o ToString(n) ELSE ToString(n)
\* The text "YYYY-MM-DD" of a date key.
DateText(key) == ToString(key[1]) \o "-" \o PadStart2(key[2]) \o "-" \o PadStart2(key[3])
\* `mukomeJournal_${dateKey}`
JournalKey(dateKey) == "mukomeJournal_" \o DateText(dateKey)

\* The keys the pages use; the journal's keys are those of the days the
\* clock can show in some zone.
StorageKeys ==
    {"sleepLogs", "currentWeek", "questifyData", "mukomeJournalEntry"}
        \cup {JournalKey(CivilFromDays[z]) :
                z \in (DaysFromCivil[2024, 2, 24] - 1)..(DaysFromCivil[2024, 2, 24] + HorizonDays + 1)}

getItem(store, key) == store[key]
setItem(store, key, text) == [store EXCEPT ![key] = text]

\* JSON.stringify(v): the text of v
JSONstringify(v) == <<v>>
\* A stored text that is not JSON.
Malformed == <<"not", "JSON">>
\* JSON.parse(text) throws a SyntaxError
JSONparseThrows(text) == text = Malformed
\* JSON.parse(text) when it does not throw; JSON.parse(null) is null
JSONparse(text) == IF text = Null THEN Null ELSE text[1]
\* a || b for a value that is falsy only when null
OrElse(a, b) == IF a = Null THEN b ELSE a

\* --------------------------------------------------- sleep.js: date keys
\* getLocalDateKey() with new Date() = t: the local date of t
getLocalDateKey(t) ==
    Bind(t, LAMBDA date : <<getFullYear(date), getMonth(date) + 1, getDate(date)>>)

\* Mutants of DaysSinceMonday: a week counted from Sunday; Sunday's special
\* case forgotten.
DaysSinceMonday_fromSunday(dayOfWeek) == dayOfWeek
DaysSinceMonday_noSundayCase(dayOfWeek) == dayOfWeek - 1

\* The days to go back from a day of the week (0 = Sun) to its Monday.
DaysSinceMonday(dayOfWeek) == IF dayOfWeek = 0 THEN 6 ELSE dayOfWeek - 1

\* getWeekStartDate() with new Date() = t: the instant of local Monday 00:00
getWeekStartDate(t) ==
    Bind(getLocalDateKey(t), LAMBDA key :
    Bind(NewDate(key[1], key[2] - 1, key[3]), LAMBDA today :
        LET dayOfWeek == getDay(today)
            diff      == DaysSinceMonday(dayOfWeek)
            weekStart == setDate[today, getDate(today) - diff]
        IN  setHoursZero(weekStart)))

\* The key checkAndResetWeeklyData derives from the week start.
weekStartKey(t) == toISODate(getWeekStartDate(t))

\* Mutant of checkAndResetWeeklyData: the comparison with the stored marker
\* is dropped, every check resets.
checkAndResetWeeklyData_always(t, logs, week, store) ==
    Bind(weekStartKey(t), LAMBDA key :
        [sleepLogs    |-> <<>>,
         currentWeek  |-> key,
         localStorage |-> setItem(setItem(store, "sleepLogs", JSONstringify(<<>>)),
                                  "currentWeek", JSONstringify(key)),
         reset        |-> TRUE])

\* checkAndResetWeeklyData() at clock t on the module state (logs, week) and
\* the store: the module state and store after it, and whether it reset.
checkAndResetWeeklyData(t, logs, week, store) ==
    Bind(weekStartKey(t), LAMBDA key :
        IF week = Null \/ week # key
        THEN [sleepLogs    |-> <<>>,
              currentWeek  |-> key,
              localStorage |-> setItem(setItem(store, "sleepLogs", JSONstringify(<<>>)),
                                       "currentWeek", JSONstringify(key)),
              reset        |-> TRUE]
        ELSE [sleepLogs    |-> logs,
              currentWeek  |-> week,
              localStorage |-> store,
              reset        |-> FALSE])

\* ------------------------------------------------- journal.js: date key
\* Mutant of journal_getLocalDateKey: the UTC date, the shift forgotten.
journal_getLocalDateKey_utc(date) == toISODate(date)

\* getLocalDateKey(date): the instant is shifted by the zone offset and the
\* UTC date of the shifted instant is taken.
journal_getLocalDateKey(date) == toISODate(date - getTimezoneOffset)

\* The white space String.prototype.trim() removes, as far as the model's
\* texts hold any.  A text is a tuple of characters.
WhiteSpace == {" ", "\n", "\t"}
RECURSIVE trimStart(_)
trimStart(text) ==
    IF text # <<>> /\ Head(text) \in WhiteSpace THEN trimStart(Tail(text)) ELSE text
RECURSIVE trimEnd(_)
trimEnd(text) ==
    IF text # <<>> /\ text[Len(text)] \in WhiteSpace
    THEN trimEnd(SubSeq(text, 1, Len(text) - 1))
    ELSE text
\* text.trim()
trim(text) == trimEnd(trimStart(text))

\* A length of n pixels: the lengths of the journal section are counted in
\* sixths of a pixel, which makes the half and the third of a whole number
\* of pixels whole.
Px(n) == 6 * n
\* offsetLeft, offsetTop, offsetWidth and offsetHeight are whole numbers of
\* pixels: the length rounded to the nearest pixel.
RoundPx(length) == Px((length + Px(1) \div 2) \div Px(1))
\* element.style.width or .height never set: "".
NoStyle == 0 - 1

\* What saveJournalEntry() keeps of an overlay (journal.js:472-483).
ImageData(item) ==
    [src       |-> item.src,
     left      |-> item.left,
     top       |-> item.top,
     width     |-> item.width,
     height    |-> item.height,
     transform |-> item.transform,
     isSticker |-> item.isSticker]

\* Array.from(els).map(ImageData) from the i-th overlay on.
RECURSIVE ImagesFrom(_, _)
ImagesFrom(els, i) ==
    IF i > Len(els) THEN <<>> ELSE <<ImageData(els[i])>> \o ImagesFrom(els, i + 1)

\* The entry saveJournalEntry() builds: the trimmed text, the two date texts
\* (weekday and day; month and year), the mood title and the images of the
\* overlays els.  The timestamp, copied from the page as it is, is left out.
EntryData(date, value, mood, els) ==
    [text      |-> trim(value),
     dayDate   |-> <<getDay(date), getDate(date)>>,
     monthYear |-> <<getMonth(date) + 1, getFullYear(date)>>,
     mood      |-> mood,
     images    |-> ImagesFrom(els, 1)]

\* Mutant of saveJournalEntry: the text is not checked.
saveJournalEntry_unchecked(date, value, mood, els, store) ==
    Bind(JournalKey(journal_getLocalDateKey(date)), LAMBDA key :
    Bind(JSONstringify(EntryData(date, value, mood, els)), LAMBDA text :
        [saved        |-> TRUE,
         localStorage |-> setItem(setItem(store, "mukomeJournalEntry", text), key, text)]))

\* Mutant of saveJournalEntry: the entry is stored under today's key,
\* whatever date the page shows.
saveJournalEntry_today(date, value, mood, els, store) ==
    Bind(JournalKey(journal_getLocalDateKey(now)), LAMBDA key :
    Bind(JSONstringify(EntryData(date, value, mood, els)), LAMBDA text :
        IF trim(value) = <<>>
        THEN [saved |-> FALSE, localStorage |-> store]
        ELSE [saved        |-> TRUE,
              localStorage |-> setItem(setItem(store, "mukomeJournalEntry", text), key, text)]))

\* saveJournalEntry() with currentDate = date, the textarea holding value,
\* the mood title mood and the overlays els: the store after it and whether
\* it saved.
saveJournalEntry(date, value, mood, els, store) ==
    Bind(JournalKey(journal_getLocalDateKey(date)), LAMBDA key :
    Bind(JSONstringify(EntryData(date, value, mood, els)), LAMBDA text :
        IF trim(value) = <<>>
        THEN [saved |-> FALSE, localStorage |-> store]
        ELSE [saved        |-> TRUE,
              localStorage |-> setItem(setItem(store, "mukomeJournalEntry", text), key, text)]))

\* ---------------------------------------------------- sleep.js: duration
\* The e with 2^e <= minutes/60 < 2^(e+1), for 1 <= minutes <= 2 * 24 * 60.
BinaryExponent[minutes \in Int] ==
    CHOOSE e \in (0 - 6) .. 5 :
        /\ 60 * (2 ^ (e + 6)) <= 64 * minutes
        /\ 64 * minutes < 60 * (2 ^ (e + 7))

\* (minutes / 60).toFixed(1) in tenths, where minutes / 60 is the IEEE
\* double nearest to the quotient.  toFixed takes the n with n / 10 nearest
\* to the double, the larger n on a tie.  The quotient lies between two
\* tenths except when minutes = 6k + 3, where it is (2k + 1) / 20, midway:
\* then the double decides.  It is exact when 5 divides 2k + 1 (a multiple
\* of 1/4, a true tie); otherwise the double is the 53-bit rounding of the
\* quotient, below or above it as the remainder of (2k + 1) * 2^s by 20 is
\* below or above 10, s = 52 - BinaryExponent, and 2^s mod 20 is 4, 8, 16,
\* 12 as s mod 4 is 2, 3, 0, 1.
toFixed1[minutes \in Int] ==
    LET n   == minutes \div 6
        rem == minutes % 6
        j   == 2 * ((minutes - 3) \div 6) + 1
        s   == 52 - BinaryExponent[minutes]
        p   == <<4, 8, 16, 12>>[((s - 2) % 4) + 1]
    IN  IF rem < 3 THEN n
        ELSE IF rem > 3 THEN n + 1
        ELSE IF j % 5 = 0 THEN n + 1
        ELSE IF (j * p) % 20 < 10 THEN n ELSE n + 1

\* new Date(`2000-01-01T${time}:00`), in minutes after local 2000-01-01 00:00
ClockTime(time) == time[1] * 60 + time[2]

\* Mutants of calculateDuration: the wrap taken on wake <= sleep; the two
\* arguments exchanged.
calculateDuration_wrapOnEqual(sleepTime, wakeTime) ==
    LET sleep == ClockTime(sleepTime)
        wake0 == ClockTime(wakeTime)
        wake  == IF wake0 <= sleep THEN wake0 + MinutesPerDay ELSE wake0
    IN  toFixed1[wake - sleep]
calculateDuration_swapped(sleepTime, wakeTime) ==
    LET sleep == ClockTime(wakeTime)
        wake0 == ClockTime(sleepTime)
        wake  == IF wake0 < sleep THEN wake0 + MinutesPerDay ELSE wake0
    IN  toFixed1[wake - sleep]

\* calculateDuration(sleepTime, wakeTime), in tenths of an hour
calculateDuration(sleepTime, wakeTime) ==
    LET sleep      == ClockTime(sleepTime)
        wake0      == ClockTime(wakeTime)
        wake       == IF wake0 < sleep THEN wake0 + MinutesPerDay ELSE wake0
        durationMs == wake - sleep
    IN  toFixed1[durationMs]

\* ------------------------------------------------------- sleep.js: logs
\* logs.findIndex(l => l.date === date): the first index (from 1), 0 for -1
findIndex(logs, date) ==
    Bind(date, LAMBDA d :
        IF \E i \in 1..Len(logs) : logs[i].date = d
        THEN CHOOSE i \in 1..Len(logs) :
                /\ logs[i].date = d
                /\ \A k \in 1..(i - 1) : logs[k].date # d
        ELSE 0)

\* The log saveSleepLog builds from the inputs at clock t.
NewLog(t, sleepTime, wakeTime) ==
    [date      |-> getLocalDateKey(t),
     sleepTime |-> sleepTime,
     wakeTime  |-> wakeTime,
     duration  |-> calculateDuration(sleepTime, wakeTime)]

\* Mutants of saveSleepLog: the new log is always pushed; the collection is
\* stored as it was before the change.
saveSleepLog_push(t, sleepTime, wakeTime, logs, store) ==
    IF sleepTime = <<>> \/ wakeTime = <<>>
    THEN [saved |-> FALSE, replaced |-> FALSE, sleepLogs |-> logs, localStorage |-> store]
    ELSE
        Bind(NewLog(t, sleepTime, wakeTime), LAMBDA log :
        Bind(Append(logs, log), LAMBDA after :
            [saved |-> TRUE, replaced |-> findIndex(logs, log.date) # 0,
             sleepLogs |-> after,
             localStorage |-> setItem(store, "sleepLogs", JSONstringify(after))]))
saveSleepLog_staleStore(t, sleepTime, wakeTime, logs, store) ==
    IF sleepTime = <<>> \/ wakeTime = <<>>
    THEN [saved |-> FALSE, replaced |-> FALSE, sleepLogs |-> logs, localStorage |-> store]
    ELSE
        Bind(NewLog(t, sleepTime, wakeTime), LAMBDA log :
        Bind(findIndex(logs, log.date), LAMBDA existingLogIndex :
            [saved |-> TRUE, replaced |-> existingLogIndex # 0,
             sleepLogs |-> IF existingLogIndex # 0
                           THEN [logs EXCEPT ![existingLogIndex] = log]
                           ELSE Append(logs, log),
             localStorage |-> setItem(store, "sleepLogs", JSONstringify(logs))]))

\* saveSleepLog() at clock t with the two inputs' values: the collection and
\* the store after it, and what it did.
saveSleepLog(t, sleepTime, wakeTime, logs, store) ==
    IF sleepTime = <<>> \/ wakeTime = <<>>
    THEN [saved |-> FALSE, replaced |-> FALSE, sleepLogs |-> logs, localStorage |-> store]
    ELSE
        Bind(NewLog(t, sleepTime, wakeTime), LAMBDA log :
        Bind(findIndex(logs, log.date), LAMBDA existingLogIndex :
        Bind(IF existingLogIndex # 0
             THEN [logs EXCEPT ![existingLogIndex] = log]
             ELSE Append(logs, log), LAMBDA after :
            [saved |-> TRUE, replaced |-> existingLogIndex # 0, sleepLogs |-> after,
             localStorage |-> setItem(store, "sleepLogs", JSONstringify(after))])))

daysInWeek == <<"Mon", "Tue", "Wed", "Thu", "Fri", "Sat", "Sun">>

\* Mutant of getLast7DaysData: of the logs of one date the last is taken
\* (findLast in place of find).
getLast7DaysData_lastMatch(t, logs) ==
    Bind(getWeekStartDate(t), LAMBDA weekStart :
        [i \in 1..7 |->
            Bind(setDate[weekStart, getDate(weekStart) + (i - 1)], LAMBDA date :
            Bind(<<getFullYear(date), getMonth(date) + 1, getDate(date)>>, LAMBDA dateString :
            Bind(IF \E k \in 1..Len(logs) : logs[k].date = dateString
                 THEN CHOOSE k \in 1..Len(logs) :
                        /\ logs[k].date = dateString
                        /\ \A h \in (k + 1)..Len(logs) : logs[h].date # dateString
                 ELSE 0, LAMBDA at :
                [date     |-> dateString,
                 duration |-> IF at # 0 THEN logs[at].duration ELSE 0,
                 day      |-> daysInWeek[i]])))])

\* getLast7DaysData() at clock t on the collection logs; the loop's i runs
\* from 1 here.
getLast7DaysData(t, logs) ==
    Bind(getWeekStartDate(t), LAMBDA weekStart :
        [i \in 1..7 |->
            Bind(setDate[weekStart, getDate(weekStart) + (i - 1)], LAMBDA date :
            Bind(<<getFullYear(date), getMonth(date) + 1, getDate(date)>>, LAMBDA dateString :
            Bind(findIndex(logs, dateString), LAMBDA at :
                [date     |-> dateString,
                 duration |-> IF at # 0 THEN logs[at].duration ELSE 0,
                 day      |-> daysInWeek[i]])))])

\* sleepChart.data.datasets[0].data as initSleepChart builds the chart
EmptyChart == [i \in 1..7 |-> 0]

\* updateSleepChart() at clock t, the chart built: the chart's data after it
updateSleepChart(t, logs) ==
    Bind(getLast7DaysData(t, logs), LAMBDA last7DaysData :
        [i \in 1..7 |-> last7DaysData[i].duration])

\* ------------------------------------------ sleep.js: the weekly average
\* A JavaScript number (an IEEE 754 double) from 2^-12 up to 2^8, or 0, is a
\* whole multiple n of 2^-64 with n < 2^72; it is written as the three
\* digits <<d2, d1, d0>> of n in base 2^24, n = d2 * 2^48 + d1 * 2^24 + d0.
Limb == 2^24
DoubleZero == <<0, 0, 0>>

\* The quotient and the remainder of the digits n by the small number d.
LimbsDiv(n, d) ==
    Bind(n[1] % d, LAMBDA r2 :
    Bind((r2 * Limb + n[2]) % d, LAMBDA r1 :
        [quot |-> <<n[1] \div d, (r2 * Limb + n[2]) \div d, (r1 * Limb + n[3]) \div d>>,
         rem  |-> (r1 * Limb + n[3]) % d]))

\* The sum of the digits a and b.
LimbsAdd(a, b) ==
    Bind((a[3] + b[3]) \div Limb, LAMBDA c0 :
    Bind((a[2] + b[2] + c0) \div Limb, LAMBDA c1 :
        <<a[1] + b[1] + c1, (a[2] + b[2] + c0) % Limb, (a[3] + b[3]) % Limb>>))

\* The e with 2^e <= d2 < 2^(e+1).
LeadingBit(d2) == CHOOSE e \in 0..30 : 2^e <= d2 /\ d2 < 2 * 2^e

\* The double nearest to n + rem / d (units of 2^-64), the even one on a
\* tie: the 53 bits from the leading bit down are kept, the digits below
\* (all in d0) and the fraction decide the rounding.
RoundToDouble(n, rem, d) ==
    IF n[1] < 16
    THEN n
    ELSE Bind(2^(LeadingBit(n[1]) - 4), LAMBDA ulp :
         Bind(n[3] % ulp, LAMBDA low :
         Bind(IF 2 * low # ulp THEN 2 * low > ulp
              ELSE (rem > 0 \/ (n[3] \div ulp) % 2 = 1), LAMBDA up0 :
         Bind(IF ulp = 1 THEN (2 * rem > d \/ (2 * rem = d /\ n[3] % 2 = 1)) ELSE up0, LAMBDA up :
            LimbsAdd(<<n[1], n[2], n[3] - low>>, IF up THEN <<0, 0, ulp>> ELSE DoubleZero)))))

\* parseFloat(day.duration || 0) for a duration given in tenths: the double
\* nearest to duration / 10.
parseFloat(duration) ==
    Bind(LimbsDiv(<<duration * 65536, 0, 0>>, 10), LAMBDA q :
        RoundToDouble(q.quot, q.rem, 10))

\* x + y and x / n of doubles.
DoubleAdd(x, y) == RoundToDouble(LimbsAdd(x, y), 0, 1)
DoubleDiv(x, n) ==
    Bind(LimbsDiv(x, n), LAMBDA q : RoundToDouble(q.quot, q.rem, n))

\* x.toFixed(1) in tenths: the whole number nearest to 10 * x, the larger
\* one on a tie.
NumberToFixed1(x) ==
    Bind((x[3] * 10) \div Limb, LAMBDA c0 :
    Bind((x[2] * 10 + c0) \div Limb, LAMBDA c1 :
        (x[1] * 10 + c1 + 32768) \div 65536))

\* (totalSleep / nightsTracked).toFixed(1) in tenths, totalSleep a double.
toFixed1Quotient(totalSleep, nightsTracked) ==
    NumberToFixed1(DoubleDiv(totalSleep, nightsTracked))

\* last7DaysData.reduce((sum, day) => sum + parseFloat(day.duration || 0), 0)
RECURSIVE TotalSleepFrom(_, _, _)
TotalSleepFrom(sum, last7DaysData, i) ==
    IF i > Len(last7DaysData)
    THEN sum
    ELSE TotalSleepFrom(DoubleAdd(sum, parseFloat(last7DaysData[i].duration)),
                        last7DaysData, i + 1)
TotalSleep(last7DaysData) == TotalSleepFrom(DoubleZero, last7DaysData, 1)

\* Mutant of NightsTracked: every slot is counted.
NightsTracked_allSlots(last7DaysData) == Cardinality(DOMAIN last7DaysData)

\* last7DaysData.filter(day => day.duration > 0).length
NightsTracked(last7DaysData) ==
    Cardinality({i \in DOMAIN last7DaysData : last7DaysData[i].duration > 0})

\* The texts before the first updateWeeklyStats().
NoStats == [avgSleep |-> 0, nightsTracked |-> 0]

\* updateWeeklyStats() at clock t: the average (in tenths) and the count it
\* writes to the page.
updateWeeklyStats(t, logs) ==
    Bind(getLast7DaysData(t, logs), LAMBDA last7DaysData :
    Bind(NightsTracked(last7DaysData), LAMBDA nightsTracked :
        [avgSleep      |-> IF nightsTracked > 0
                           THEN toFixed1Quotient(TotalSleep(last7DaysData), nightsTracked)
                           ELSE 0,
         nightsTracked |-> nightsTracked]))

\* ------------------------------------------------------ todo.js: state
\* A task is [id, title, completed], a habit has a streak as well.  The
\* fields no handler reads (notes, priority, createdAt, deadline) are left
\* out.
\* The state object as the script creates it.
DefaultState ==
    [todos |-> <<>>, dailies |-> <<>>, habits |-> <<>>, theme |-> "light",
     health |-> 100, xp |-> 0, level |-> 1]

\* v || d for a number v: d when v is 0
NumberOr(v, d) == IF v = 0 THEN d ELSE v

\* The object saveToStorage() builds from the state.
StoredData(st) ==
    [tasks  |-> [todos |-> st.todos, dailies |-> st.dailies, habits |-> st.habits],
     theme  |-> st.theme,
     health |-> st.health,
     xp     |-> st.xp,
     level  |-> st.level]

\* Mutant of saveToStorage: the to-dos the store holds and the state does not
\* are kept in front of the state's.
saveToStorage_merging(st, store) ==
    Bind(getItem(store, "questifyData"), LAMBDA text :
        IF text = Null
        THEN setItem(store, "questifyData", JSONstringify(StoredData(st)))
        ELSE Bind(JSONparse(text), LAMBDA old :
             Bind(SelectSeq(old.tasks.todos,
                            LAMBDA t : \A j \in 1..Len(st.todos) : st.todos[j].id # t.id),
                  LAMBDA kept :
                setItem(store, "questifyData",
                        JSONstringify([StoredData(st) EXCEPT !.tasks.todos = kept \o st.todos])))))

\* saveToStorage(): the store after it
saveToStorage(st, store) == setItem(store, "questifyData", JSONstringify(StoredData(st)))

\* loadFromStorage() on the state st, JSON.parse not throwing: the state
\* after it.
loadFromStorage(st, store) ==
    Bind(getItem(store, "questifyData"), LAMBDA text :
        IF text = Null
        THEN st
        ELSE Bind(JSONparse(text), LAMBDA data :
                [todos   |-> data.tasks.todos,
                 dailies |-> data.tasks.dailies,
                 habits  |-> data.tasks.habits,
                 theme   |-> data.theme,
                 health  |-> NumberOr(data.health, 75),
                 xp      |-> NumberOr(data.xp, 45),
                 level   |-> NumberOr(data.level, 3)]))

\* Math.min(a, b), Math.max(a, b)
MathMin(a, b) == IF a < b THEN a ELSE b
MathMax(a, b) == IF a > b THEN a ELSE b

\* list.findIndex(t => t.id === id), from 1; 0 when there is none
IndexOfId(list, id) ==
    IF \E i \in 1..Len(list) : list[i].id = id
    THEN CHOOSE i \in 1..Len(list) :
            /\ list[i].id = id
            /\ \A k \in 1..(i - 1) : list[k].id # id
    ELSE 0

\* list.filter(t => t.id !== id)
WithoutId(list, id) == SelectSeq(list, LAMBDA t : t.id # id)

\* handleAddTask() with the title input holding value, the type select type
\* and Date.now() = id: the state after it (unchanged when the trimmed title
\* is empty).
handleAddTask(st, value, type, id) ==
    Bind(trim(value), LAMBDA title :
        IF title = <<>>
        THEN st
        ELSE Bind([id |-> id, title |-> title, type |-> type, completed |-> FALSE],
                  LAMBDA task :
             Bind(IF type = "todo" THEN [st EXCEPT !.todos = Append(@, task)]
                  ELSE IF type = "daily" THEN [st EXCEPT !.dailies = Append(@, task)]
                  ELSE [st EXCEPT !.habits =
                            Append(@, [id |-> id, title |-> title, type |-> type,
                                       completed |-> FALSE, streak |-> 0])],
                  LAMBDA pushed :
                 [pushed EXCEPT !.xp = MathMin(100, st.xp + 3)])))

\* The check for a level up, todo.js:131-136.
LevelUp(st) == IF st.xp >= 100 THEN [st EXCEPT !.level = @ + 1, !.xp = 0] ELSE st

\* Mutant of completeTask: completing a daily completes every daily.
completeTask_allDailies(st, type, id) ==
    LevelUp(
        IF type = "todo"
        THEN [st EXCEPT !.todos = WithoutId(@, id),
                        !.xp = MathMin(100, @ + 8)]
        ELSE IF type = "daily"
        THEN [st EXCEPT !.dailies = [i \in DOMAIN @ |-> [@[i] EXCEPT !.completed = TRUE]],
                        !.xp = MathMin(100, @ + 5)]
        ELSE [st EXCEPT !.habits[IndexOfId(st.habits, id)].streak = @ + 1,
                        !.xp = MathMin(100, @ + 2)])

\* completeTask(type, id), the list of that type holding a task with that
\* id: the state after it.
completeTask(st, type, id) ==
    LevelUp(
        IF type = "todo"
        THEN [st EXCEPT !.todos = WithoutId(@, id),
                        !.xp = MathMin(100, @ + 8)]
        ELSE IF type = "daily"
        THEN [st EXCEPT !.dailies[IndexOfId(st.dailies, id)].completed = TRUE,
                        !.xp = MathMin(100, @ + 5)]
        ELSE [st EXCEPT !.habits[IndexOfId(st.habits, id)].streak = @ + 1,
                        !.xp = MathMin(100, @ + 2)])

\* Mutant of deleteTask: the health is not floored at 0.
deleteTask_unfloored(st, type, id) ==
    IF type = "todo"
    THEN [st EXCEPT !.todos = WithoutId(@, id),
                    !.health = @ - 5]
    ELSE IF type = "daily"
    THEN [st EXCEPT !.dailies = WithoutId(@, id)]
    ELSE [st EXCEPT !.habits = WithoutId(@, id)]

\* deleteTask(type, id): the state after it
deleteTask(st, type, id) ==
    IF type = "todo"
    THEN [st EXCEPT !.todos = WithoutId(@, id),
                    !.health = MathMax(0, @ - 5)]
    ELSE IF type = "daily"
    THEN [st EXCEPT !.dailies = WithoutId(@, id)]
    ELSE [st EXCEPT !.habits = WithoutId(@, id)]

\* Mutant of midnightReset: the habits' streaks are reset too.
midnightReset_streaks(st) ==
    [st EXCEPT !.dailies = [i \in DOMAIN @ |-> [@[i] EXCEPT !.completed = FALSE]],
               !.habits = [i \in DOMAIN @ |-> [@[i] EXCEPT !.streak = 0]]]

\* state.dailies.forEach(task => task.completed = false), the first statement
\* of the timer's callback
midnightReset(st) ==
    [st EXCEPT !.dailies = [i \in DOMAIN @ |-> [@[i] EXCEPT !.completed = FALSE]]]

\* midnight.setHours(24, 0, 0, 0) on a copy of the instant t: the next local
\* 00:00 after t
midnightAfter(t) == (LocalDay(t) + 1) * MinutesPerDay - tz

\* ------------------------------------------------------------- the model
\* Saturday 2024-02-24 00:00 UTC: the run crosses Monday 2024-02-26 into a
\* week that holds the end of February of a leap year.
StartInstant == DaysFromCivil[2024, 2, 24] * MinutesPerDay
MaxNow == StartInstant + HorizonDays * MinutesPerDay
\* The clock starts on the minute or one minute before a quarter day, and
\* moves by quarter days and days.
StartPhases == {0, 359}
ClockSteps == {360, MinutesPerDay}
\* US Central (UTC-6), UTC, India (UTC+5:30)
Zones == {0 - 360, 0, 330}
\* What the two time inputs can hold when Save is clicked.
SleepInputs == {<<>>, <<22, 0>>}
WakeInputs == {<<>>, <<6, 30>>, <<22, 0>>}

\* History only: the day number of the local Monday on or before instant t,
\* by day arithmetic (day 4, 1970-01-05, was a Monday).
WeekOf(t) == LocalDay(t) - ((LocalDay(t) + 3) % 7)

\* A history record: the operation, whether it reset the week, how many logs
\* the reset discarded, whether a save replaced a log, and the save's inputs.
Op(name, reset, cleared, replaced, args) ==
    [op |-> name, reset |-> reset, cleared |-> cleared, replaced |-> replaced,
     args |-> args]
NoArgs == <<>>

\* resetForm() on the task modal's form: the form after it
resetForm(form) == [form EXCEPT !.title = <<>>, !.type = "todo"]

\* closeTaskModal() on the task modal's form: the form after it
closeTaskModal(form) == resetForm([form EXCEPT !.active = FALSE])

\* openTaskModal() on the task modal's form: the form after it
openTaskModal(form) == [form EXCEPT !.active = TRUE]

\* The task modal of a page just loaded: closed, its fields as resetForm()
\* leaves them.
ClosedForm == [active |-> FALSE, title |-> <<>>, type |-> "todo"]

\* The task page is not open.
TodoIdle ==
    /\ state = DefaultState
    /\ todoOpen = FALSE
    /\ timers = <<>>
    /\ taskForm = ClosedForm

\* journal.js:48-49 at script load: currentElement = null and the offset.
NoElement == 0
NoOffset == [x |-> 0, y |-> 0]
\* What currentElement refers to when its element has been taken out of the
\* page: an element without and with the class "fixed".
Removed == 0 - 1
RemovedFixed == 0 - 2
\* element.style.transform never set: "".  A transform rotate(a deg) is <<a>>.
NoTransform == <<>>
\* The list without its i-th element.
RemoveAt(list, i) == SubSeq(list, 1, i - 1) \o SubSeq(list, i + 1, Len(list))
\* The journal section's rectangle in the viewport.
DefaultBounds == [left |-> Px(0), top |-> Px(60), width |-> Px(300), height |-> Px(210)]

\* The calendar section before its tab is clicked: not displayed, and
\* setupCalendar() has put no listener on the month buttons.
NoCalendar == [visible |-> FALSE, listeners |-> 0]

\* The journal page is not open.
JournalIdle ==
    /\ currentDate = 0
    /\ journalOpen = FALSE
    /\ loadPending = FALSE
    /\ journalSwal = "none"
    /\ calendar = NoCalendar
    /\ isDragging = FALSE
    /\ isResizing = FALSE
    /\ isRotating = FALSE
    /\ startAngle = 0
    /\ startMouseAngle = 0
    /\ offset = NoOffset
    /\ currentElement = NoElement
    /\ overlays = <<>>
    /\ moveListeners = <<>>
    /\ bounds = DefaultBounds

\* The home page is not open: no fetch has been started.
NoPromise == [stage |-> "none", kind |-> "none", isArray |-> FALSE, elems |-> <<>>]
\* The search bar empty, the results box hidden and empty, no debounce timer
\* pending (app.js:53-55 on a page just loaded); sinceHide is history: the
\* results were hidden by Escape or by a click outside and the search bar
\* has had no input or focus event since; href is the text navigateTo has
\* assigned to window.location.href, empty while it has assigned none.
NoSearch == [value |-> <<>>, hidden |-> TRUE, results |-> <<>>, pending |-> FALSE,
             query |-> <<>>, sinceHide |-> FALSE, href |-> <<>>]
QuoteIdle ==
    /\ quoteBox = "initial"
    /\ promise = NoPromise
    /\ search = NoSearch

\* Swal.fire(options) of sleep.js: the modal it opens, and no modal.
SwalFire(icon, confirmButtonText) == [icon |-> icon, confirmButtonText |-> confirmButtonText]
NoSwal == SwalFire("none", "none")

\* A tab in which no page is open.
IdleTab == [pageOpen |-> FALSE, initPending |-> FALSE, sleepLogs |-> <<>>, currentWeek |-> Null,
            viewVars |-> <<NoSwal, NoStats, EmptyChart>>,
            state |-> DefaultState, todoOpen |-> FALSE, timers |-> <<>>,
            taskForm |-> ClosedForm]
\* Only one tab is open.
TabIdle == otherTab = IdleTab

\* The sleep page has rendered nothing.
ViewIdle ==
    /\ swal = NoSwal
    /\ weeklyStats = NoStats
    /\ chartData = EmptyChart

Init ==
    /\ now \in {StartInstant + p : p \in StartPhases}
    /\ tz \in Zones
    /\ localStorage = [k \in StorageKeys |-> Null]
    /\ pageOpen = FALSE
    /\ initPending = FALSE
    /\ sleepLogs = <<>>
    /\ currentWeek = Null
    /\ lastOp = Op("start", FALSE, 0, FALSE, NoArgs)
    /\ resetLog = <<>>
    /\ dSleep = <<>>
    /\ dWake = <<>>
    /\ dResult = NoResult
    /\ ViewIdle
    /\ uncaught = {}
    /\ msec = 0
    /\ TodoIdle
    /\ JournalIdle
    /\ QuoteIdle
    /\ TabIdle

\* Time passes, up to the instant the next timer is due.
AdvanceClock(d) ==
    /\ now + d <= MaxNow
    /\ \A i \in 1..Len(timers) : now + d <= timers[i]
    /\ now' = now + d
    /\ lastOp' = Op("tick", FALSE, 0, FALSE, NoArgs)
    /\ UNCHANGED <<tz, localStorage, sleepVars, uncaught, nonSleepVars, msec>>

\* The sleep page is loaded (or reloaded) and its script is evaluated: the
\* module state is read from the store (sleep.js:41-42) and init() is
\* registered for DOMContentLoaded (sleep.js:620).  When JSON.parse throws the
\* script stops at sleep.js:41-42 and nothing is registered.
LoadPage ==
    /\ IF \/ JSONparseThrows(getItem(localStorage, "sleepLogs"))
          \/ JSONparseThrows(getItem(localStorage, "currentWeek"))
       THEN /\ sleepLogs' = <<>>
            /\ currentWeek' = Null
            /\ initPending' = FALSE
            /\ uncaught' = uncaught \cup {"sleep.js"}
            /\ lastOp' = Op("loadThrew", FALSE, 0, FALSE, NoArgs)
       ELSE /\ sleepLogs' = OrElse(JSONparse(getItem(localStorage, "sleepLogs")), <<>>)
            /\ currentWeek' = OrElse(JSONparse(getItem(localStorage, "currentWeek")), Null)
            /\ initPending' = TRUE
            /\ uncaught' = uncaught \ {"sleep.js"}
            /\ lastOp' = Op("script", FALSE, 0, FALSE, NoArgs)
    /\ pageOpen' = FALSE
    /\ swal' = NoSwal
    /\ chartData' = EmptyChart
    /\ weeklyStats' = NoStats
    /\ UNCHANGED <<now, tz, localStorage, resetLog, dSleep, dWake, dResult, nonSleepVars, msec>>

\* DOMContentLoaded comes: init() (sleep.js:51-59) runs the weekly check on
\* the module state, then the chart (initSleepChart, updateSleepChart) and
\* the weekly texts.
DOMContentLoaded ==
    /\ initPending
    /\ \E r \in {checkAndResetWeeklyData(now, sleepLogs, currentWeek, localStorage)} :
            /\ sleepLogs' = r.sleepLogs
            /\ currentWeek' = r.currentWeek
            /\ localStorage' = r.localStorage
            /\ lastOp' = Op("load", r.reset, IF r.reset THEN Len(sleepLogs) ELSE 0, FALSE, NoArgs)
            /\ resetLog' = IF r.reset THEN Append(resetLog, WeekOf(now)) ELSE resetLog
            /\ chartData' = updateSleepChart(now, r.sleepLogs)
            /\ weeklyStats' = updateWeeklyStats(now, r.sleepLogs)
    /\ pageOpen' = TRUE
    /\ initPending' = FALSE
    /\ UNCHANGED <<now, tz, swal, uncaught, dSleep, dWake, dResult, nonSleepVars, msec>>

\* saveSleepLog() runs with the inputs holding sleepTime and wakeTime; the
\* error or the success modal opens (in place of an open one).
SaveSleepLog(sleepTime, wakeTime) ==
    /\ pageOpen
    /\ \E r \in {saveSleepLog(now, sleepTime, wakeTime, sleepLogs, localStorage)} :
        /\ Len(r.sleepLogs) <= MaxLogs
        /\ sleepLogs' = r.sleepLogs
        /\ localStorage' = r.localStorage
        /\ lastOp' = Op(IF r.saved THEN "save" ELSE "saveRejected", FALSE, 0, r.replaced,
                        <<sleepTime, wakeTime>>)
        /\ swal' = IF r.saved THEN SwalFire("success", "View Patterns")
                   ELSE SwalFire("error", "OK")
        /\ UNCHANGED <<now, tz, pageOpen, initPending, currentWeek, resetLog, dSleep, dWake, dResult,
                       weeklyStats, chartData, uncaught, nonSleepVars, msec>>

\* "View Patterns" is clicked in the success modal: the callback of
\* sleep.js:469-478 updates the weekly texts and the chart.
ViewPatterns ==
    /\ pageOpen
    /\ swal = SwalFire("success", "View Patterns")
    /\ swal' = NoSwal
    /\ weeklyStats' = updateWeeklyStats(now, sleepLogs)
    /\ chartData' = updateSleepChart(now, sleepLogs)
    /\ lastOp' = Op("viewPatterns", FALSE, 0, FALSE, NoArgs)
    /\ UNCHANGED <<now, tz, localStorage, pageOpen, initPending, sleepLogs, currentWeek, resetLog,
                   dSleep, dWake, dResult, uncaught, nonSleepVars, msec>>

\* A modal is closed without "View Patterns".
DismissSwal ==
    /\ pageOpen
    /\ swal # NoSwal
    /\ swal' = NoSwal
    /\ lastOp' = Op("dismiss", FALSE, 0, FALSE, NoArgs)
    /\ UNCHANGED <<now, tz, localStorage, pageOpen, initPending, sleepLogs, currentWeek, resetLog,
                   dSleep, dWake, dResult, weeklyStats, chartData, uncaught, nonSleepVars, msec>>

\* The "weeklyPattern" tab is clicked (sleep.js:116-131): updateSleepChart().
ClickWeeklyPatternTab ==
    /\ pageOpen
    /\ swal = NoSwal
    /\ chartData' = updateSleepChart(now, sleepLogs)
    /\ lastOp' = Op("patternTab", FALSE, 0, FALSE, NoArgs)
    /\ UNCHANGED <<now, tz, localStorage, pageOpen, initPending, sleepLogs, currentWeek, resetLog,
                   dSleep, dWake, dResult, swal, weeklyStats, uncaught, nonSleepVars, msec>>

\* "Get Suggestions" is clicked: generateSuggestions() fills the suggestions
\* container and opens a success modal that has no callback.
GenerateSuggestions ==
    /\ pageOpen
    /\ swal' = SwalFire("success", "Got it!")
    /\ lastOp' = Op("suggestions", FALSE, 0, FALSE, NoArgs)
    /\ UNCHANGED <<now, tz, localStorage, pageOpen, initPending, sleepLogs, currentWeek, resetLog,
                   dSleep, dWake, dResult, weeklyStats, chartData, uncaught, nonSleepVars, msec>>

Next ==
    \/ \E d \in ClockSteps : AdvanceClock(d)
    \/ LoadPage
    \/ DOMContentLoaded
    \/ \E s \in SleepInputs, w \in WakeInputs : SaveSleepLog(s, w)
    \/ GenerateSuggestions

Spec == Init /\ [][Next]_vars

\* ------------------------------------------- the weekly pattern section
\* The sleep page with its modal and its weekly pattern section, in one zone.
PatternInit ==
    /\ Init
    /\ now = StartInstant
    /\ tz = 330

PatternNext ==
    \/ Next
    \/ ViewPatterns
    \/ DismissSwal
    \/ ClickWeeklyPatternTab

PatternSpec == PatternInit /\ [][PatternNext]_vars

\* ------------------------------------- the week's slots of any collection
\* The sleep page is opened on a store that holds any collection of at most
\* MaxStored logs, as saveSleepLog builds them, in any order: nights of
\* Tuesday 2024-02-20, Monday 2024-02-26 and Friday 2024-03-01 of 8.5 and of
\* 7 hours, also several of one date.  It is Wednesday 2024-02-28, or Sunday
\* 2024-03-03 23:00 UTC (Monday in India); the stored marker is the week's.
SampleNights ==
    {DaysFromCivil[2024, 2, 20], DaysFromCivil[2024, 2, 26], DaysFromCivil[2024, 3, 1]}
SampleLogs ==
    {NewLog(z * MinutesPerDay + 12 * 60, <<22, 0>>, w) :
        z \in SampleNights, w \in {<<6, 30>>, <<5, 0>>}}
StoredCollections == UNION {[1..n -> SampleLogs] : n \in 0..MaxStored}
CollectionInstants ==
    {DaysFromCivil[2024, 2, 28] * MinutesPerDay + 12 * 60,
     DaysFromCivil[2024, 3, 3] * MinutesPerDay + 23 * 60}

CollectionInit ==
    /\ tz \in {0 - 360, 330}
    /\ now \in CollectionInstants
    /\ \E logs \in StoredCollections :
        localStorage =
            [k \in StorageKeys |->
                CASE k = "sleepLogs" -> JSONstringify(logs)
                  [] k = "currentWeek" -> JSONstringify(weekStartKey(now))
                  [] OTHER -> Null]
    /\ pageOpen = FALSE
    /\ initPending = FALSE
    /\ sleepLogs = <<>>
    /\ currentWeek = Null
    /\ lastOp = Op("start", FALSE, 0, FALSE, NoArgs)
    /\ resetLog = <<>>
    /\ dSleep = <<>>
    /\ dWake = <<>>
    /\ dResult = NoResult
    /\ ViewIdle
    /\ uncaught = {}
    /\ msec = 0
    /\ TodoIdle
    /\ JournalIdle
    /\ QuoteIdle
    /\ TabIdle

\* The page is loaded, the weekly pattern section is shown, a night is
\* saved.
CollectionNext ==
    \/ LoadPage
    \/ DOMContentLoaded
    \/ ClickWeeklyPatternTab
    \/ SaveSleepLog(<<22, 0>>, <<6, 30>>)
    \/ ViewPatterns
    \/ DismissSwal

CollectionSpec == CollectionInit /\ [][CollectionNext]_vars

\* ------------------------------------------ the date keys over the zones
\* Only the clock moves, in more zones: UTC-12, US Central, Newfoundland
\* (UTC-3:30), UTC, Central Europe, India, Nepal (UTC+5:45), UTC+14.
AllZones == {0 - 720, 0 - 360, 0 - 210, 0, 60, 330, 345, 840}

ClockInit ==
    /\ now \in {StartInstant + p : p \in StartPhases}
    /\ tz \in AllZones
    /\ localStorage = [k \in StorageKeys |-> Null]
    /\ pageOpen = FALSE
    /\ initPending = FALSE
    /\ sleepLogs = <<>>
    /\ currentWeek = Null
    /\ lastOp = Op("start", FALSE, 0, FALSE, NoArgs)
    /\ resetLog = <<>>
    /\ dSleep = <<>>
    /\ dWake = <<>>
    /\ dResult = NoResult
    /\ ViewIdle
    /\ uncaught = {}
    /\ msec = 0
    /\ TodoIdle
    /\ JournalIdle
    /\ QuoteIdle
    /\ TabIdle

ClockNext == \E d \in ClockSteps : AdvanceClock(d)

ClockSpec == ClockInit /\ [][ClockNext]_vars

\* ------------------------------------- calculateDuration on its own inputs
AllTimes == {<<h, m>> : h \in 0..23, m \in 0..59}
DurationSleepTimes == {<<h, m>> : h \in {0, 9, 22, 23}, m \in {0, 1, 30, 59}}

DurationInit ==
    /\ dSleep \in DurationSleepTimes
    /\ dWake \in AllTimes
    /\ dResult = NoResult
    /\ now = StartInstant
    /\ tz = 0
    /\ localStorage = [k \in StorageKeys |-> Null]
    /\ pageOpen = FALSE
    /\ initPending = FALSE
    /\ sleepLogs = <<>>
    /\ currentWeek = Null
    /\ lastOp = Op("start", FALSE, 0, FALSE, NoArgs)
    /\ resetLog = <<>>
    /\ ViewIdle
    /\ uncaught = {}
    /\ msec = 0
    /\ TodoIdle
    /\ JournalIdle
    /\ QuoteIdle
    /\ TabIdle

CallCalculateDuration ==
    /\ dResult = NoResult
    /\ dResult' = calculateDuration(dSleep, dWake)
    /\ lastOp' = Op("calculateDuration", FALSE, 0, FALSE, NoArgs)
    /\ UNCHANGED <<now, tz, localStorage, pageOpen, initPending, sleepLogs, currentWeek,
                   resetLog, dSleep, dWake, viewVars, uncaught, nonSleepVars, msec>>

DurationNext == CallCalculateDuration

DurationSpec == DurationInit /\ [][DurationNext]_vars

\* ------------------------------------------------------- the task page
\* The sleep page is not open and the history is empty.
SleepIdle ==
    /\ pageOpen = FALSE
    /\ initPending = FALSE
    /\ sleepLogs = <<>>
    /\ currentWeek = Null
    /\ lastOp = Op("start", FALSE, 0, FALSE, NoArgs)
    /\ resetLog = <<>>
    /\ dSleep = <<>>
    /\ dWake = <<>>
    /\ dResult = NoResult
    /\ ViewIdle

\* The task page is loaded (or reloaded): DOMContentLoaded runs init(), which
\* reads the state from the store and arms the midnight timer.  A timer of
\* the page shown before is gone with its document.
LoadTodoPage ==
    /\ IF JSONparseThrows(getItem(localStorage, "questifyData"))
       THEN \* init() stops in loadFromStorage, todo.js:266
            /\ state' = DefaultState
            /\ todoOpen' = FALSE
            /\ timers' = <<>>
            /\ uncaught' = uncaught \cup {"todo.js"}
            /\ lastOp' = Op("loadTodoThrew", FALSE, 0, FALSE, NoArgs)
       ELSE /\ state' = loadFromStorage(DefaultState, localStorage)
            /\ todoOpen' = TRUE
            /\ timers' = <<midnightAfter(now)>>
            /\ uncaught' = uncaught \ {"todo.js"}
            /\ lastOp' = Op("loadTodo", FALSE, 0, FALSE, NoArgs)
    /\ taskForm' = ClosedForm
    /\ UNCHANGED <<now, tz, localStorage, nonTodoVars, msec>>

\* The list of the state that holds the tasks of a type.
TasksOf(st, type) ==
    IF type = "todo" THEN st.todos ELSE IF type = "daily" THEN st.dailies ELSE st.habits

\* "Add" is clicked: openTaskModal() shows the task modal.
OpenTaskModal ==
    /\ todoOpen
    /\ taskForm' = openTaskModal(taskForm)
    /\ lastOp' = Op("openTaskModal", FALSE, 0, FALSE, NoArgs)
    /\ UNCHANGED <<now, tz, localStorage, state, todoOpen, timers, uncaught, nonTodoVars, msec>>

\* The user types value into the title input and picks type in the type
\* select of the task modal.
InputTask(value, type) ==
    /\ todoOpen
    /\ taskForm' = [taskForm EXCEPT !.title = value, !.type = type]
    /\ lastOp' = Op("inputTask", FALSE, 0, FALSE, <<type, 0, value>>)
    /\ UNCHANGED <<now, tz, localStorage, state, todoOpen, timers, uncaught, nonTodoVars, msec>>

\* "Cancel" is clicked in the task modal: closeTaskModal().
CancelTask ==
    /\ todoOpen
    /\ taskForm' = closeTaskModal(taskForm)
    /\ lastOp' = Op("cancelTask", FALSE, 0, FALSE, NoArgs)
    /\ UNCHANGED <<now, tz, localStorage, state, todoOpen, timers, uncaught, nonTodoVars, msec>>

\* "Save" is clicked in the task modal: handleAddTask() reads the title and
\* the type from the form and Date.now() from the clock.  With a title, the
\* task is stored and closeTaskModal() empties the form (todo.js:103);
\* without one the handler returns at todo.js:71-74 and the form stays as it
\* is.  The user's next click comes a millisecond later at least.
HandleAddTask ==
    /\ todoOpen
    /\ msec < MaxClicks
    /\ msec' = msec + 1
    /\ \E st \in {handleAddTask(state, taskForm.title, taskForm.type, <<now, msec>>)} :
        IF st = state
        THEN /\ lastOp' = Op("addTaskRejected", FALSE, 0, FALSE,
                             <<taskForm.type, 0, taskForm.title>>)
             /\ UNCHANGED <<state, localStorage, taskForm>>
        ELSE /\ state' = st
             /\ localStorage' = saveToStorage(st, localStorage)
             /\ taskForm' = closeTaskModal(taskForm)
             /\ lastOp' = Op("addTask", FALSE, 0, FALSE, <<taskForm.type, 0, taskForm.title>>)
    /\ UNCHANGED <<now, tz, todoOpen, timers, uncaught, nonTodoVars>>

\* The check button of the i-th task of a type is clicked; the button is
\* there while the task is not completed.
CompleteTask(type, i) ==
    /\ todoOpen
    /\ msec < MaxClicks
    /\ msec' = msec + 1
    /\ i \in 1..Len(TasksOf(state, type))
    /\ ~TasksOf(state, type)[i].completed
    /\ state' = completeTask(state, type, TasksOf(state, type)[i].id)
    /\ localStorage' = saveToStorage(state', localStorage)
    /\ lastOp' = Op("completeTask", FALSE, 0, FALSE, <<type, i>>)
    /\ UNCHANGED <<now, tz, todoOpen, timers, taskForm, uncaught, nonTodoVars>>

\* The trash button of the i-th task of a type is clicked.
DeleteTask(type, i) ==
    /\ todoOpen
    /\ msec < MaxClicks
    /\ msec' = msec + 1
    /\ i \in 1..Len(TasksOf(state, type))
    /\ state' = deleteTask(state, type, TasksOf(state, type)[i].id)
    /\ localStorage' = saveToStorage(state', localStorage)
    /\ lastOp' = Op("deleteTask", FALSE, 0, FALSE, <<type, i>>)
    /\ UNCHANGED <<now, tz, todoOpen, timers, taskForm, uncaught, nonTodoVars>>

\* The clock reaches the instant the first pending timer is due and the
\* timer's callback runs (todo.js:292-298): the dailies are reset, the state
\* is stored and setupMidnightReset() arms the next timer.  The history
\* records how many dailies were completed.
MidnightTimerFires ==
    /\ todoOpen
    /\ timers # <<>>
    /\ now <= Head(timers)
    /\ Head(timers) <= MaxNow
    /\ now' = Head(timers)
    /\ state' = midnightReset(state)
    /\ localStorage' = saveToStorage(state', localStorage)
    /\ timers' = Append(Tail(timers), midnightAfter(now'))
    /\ lastOp' = Op("midnight", FALSE,
                    Cardinality({i \in 1..Len(state.dailies) : state.dailies[i].completed}),
                    FALSE, NoArgs)
    /\ UNCHANGED <<tz, todoOpen, taskForm, uncaught, nonTodoVars, msec>>

\* The task page from Saturday 2024-02-24 on for TodoHorizonDays days, the
\* store empty or holding what the page stored the day before: a todo, a
\* completed daily, a habit done once, 95 experience points and, after
\* nineteen deleted todos, 5 health points.
TodoStart == StartInstant + 359
TodoEnd == StartInstant + TodoHorizonDays * MinutesPerDay
TodoTitles == {<<" ">>, <<"r", "u", "n">>}
TaskTypes == {"todo", "daily", "habit"}
StoredTask(type, k) ==
    [id |-> <<TodoStart - MinutesPerDay, k>>, title |-> <<"r", "u", "n">>, type |-> type,
     completed |-> type = "daily"]
StoredState ==
    [DefaultState EXCEPT
        !.todos = <<StoredTask("todo", 0)>>,
        !.dailies = <<StoredTask("daily", 1)>>,
        !.habits = <<[id |-> <<TodoStart - MinutesPerDay, 2>>, title |-> <<"r", "u", "n">>,
                      type |-> "habit", completed |-> FALSE, streak |-> 1]>>,
        !.health = 5,
        !.xp = 95]

\* What the user does to add a quest of one of the types: the modal is
\* opened, its fields are filled while it is shown, "Save" or "Cancel" is
\* clicked in it.
AddQuest(types) ==
    \/ /\ ~taskForm.active
       /\ OpenTaskModal
    \/ /\ taskForm.active
       /\ \E value \in TodoTitles, type \in types : InputTask(value, type)
    \/ /\ taskForm.active
       /\ CancelTask
    \/ /\ taskForm.active
       /\ taskForm.type \in types
       /\ HandleAddTask

TodoInit ==
    /\ now = TodoStart
    /\ tz = 330
    /\ \E text \in {Null, JSONstringify(StoredData(StoredState))} :
        localStorage = [k \in StorageKeys |-> IF k = "questifyData" THEN text ELSE Null]
    /\ SleepIdle
    /\ uncaught = {}
    /\ msec = 0
    /\ TodoIdle
    /\ JournalIdle
    /\ QuoteIdle
    /\ TabIdle

TodoNext ==
    \/ LoadTodoPage
    \/ AddQuest(TaskTypes)
    \/ \E type \in TaskTypes, i \in 1..(MaxClicks + 1) : CompleteTask(type, i)
    \/ \E type \in TaskTypes, i \in 1..(MaxClicks + 1) : DeleteTask(type, i)
    \/ /\ timers # <<>>
       /\ Head(timers) <= TodoEnd
       /\ MidnightTimerFires

TodoSpec == TodoInit /\ [][TodoNext]_vars

\* --------------------------------------- dailies over a closed task page
\* The task page's tab is closed: its state object and its timer are gone
\* with the document, the store stays.
CloseTodoPage ==
    /\ todoOpen
    /\ state' = DefaultState
    /\ todoOpen' = FALSE
    /\ timers' = <<>>
    /\ lastOp' = Op("closeTodo", FALSE, 0, FALSE, NoArgs)
    /\ taskForm' = ClosedForm
    /\ UNCHANGED <<now, tz, localStorage, uncaught, nonTodoVars, msec>>

\* Dailies are added and completed on the first day only; the page is
\* closed and loaded, days pass, the midnight timer fires while the page is
\* open.
DailyNext ==
    \/ LoadTodoPage
    \/ CloseTodoPage
    \/ /\ now + MinutesPerDay <= TodoEnd
       /\ AdvanceClock(MinutesPerDay)
    \/ /\ LocalDay(now) = LocalDay(TodoStart)
       /\ AddQuest({"daily", "habit"})
    \/ /\ LocalDay(now) = LocalDay(TodoStart)
       /\ \E type \in {"daily", "habit"}, i \in 1..(MaxClicks + 1) : CompleteTask(type, i)
    \/ /\ timers # <<>>
       /\ Head(timers) <= TodoEnd
       /\ MidnightTimerFires

DailySpec == TodoInit /\ [][DailyNext]_vars

\* ------------------------------------------ start-up on any stored text
\* Each of the three items is absent, not JSON, or what the page stored.
StoreShapes == {"absent", "malformed", "valid"}
StoredAs(shape, v) ==
    CASE shape = "absent"    -> Null
      [] shape = "malformed" -> Malformed
      [] OTHER               -> JSONstringify(v)

\* A state the task page has stored: a daily added and completed yesterday.
SampleState ==
    [DefaultState EXCEPT
        !.dailies = <<[id |-> <<now - MinutesPerDay, 0>>, title |-> <<"r", "u", "n">>,
                       type |-> "daily", completed |-> TRUE]>>,
        !.xp = 8]

StartupInit ==
    /\ now \in {StartInstant + p : p \in StartPhases}
    /\ tz \in Zones
    /\ \E a, b, c \in StoreShapes :
        localStorage =
            [k \in StorageKeys |->
                CASE k = "sleepLogs" ->
                        StoredAs(a, <<NewLog(now - MinutesPerDay, <<22, 0>>, <<6, 30>>)>>)
                  [] k = "currentWeek" -> StoredAs(b, weekStartKey(now - MinutesPerDay))
                  [] k = "questifyData" -> StoredAs(c, StoredData(SampleState))
                  [] OTHER -> Null]
    /\ SleepIdle
    /\ uncaught = {}
    /\ msec = 0
    /\ TodoIdle
    /\ JournalIdle
    /\ QuoteIdle
    /\ TabIdle

StartupNext ==
    \/ LoadPage
    \/ DOMContentLoaded
    \/ LoadTodoPage

StartupSpec == StartupInit /\ [][StartupNext]_vars

\* ---------------------------------------------------- the journal page
\* The labels of MOODS.
MoodLabels ==
    {"Happy", "Sad", "Angry", "Tired", "Excited", "Bored", "In Love", "Anxious", "Neutral"}

\* createRestoredImageElement(imgData): the overlay it appends to the
\* section, with the stored left, top, width, height and transform as its
\* style.  A width or height that is not set leaves the size to the page's
\* layout of the image, size = <<width, height>>.
createRestoredImageElement(imgData, size) ==
    [left         |-> imgData.left,
     top          |-> imgData.top,
     offsetWidth  |-> IF imgData.width # NoStyle THEN RoundPx(imgData.width) ELSE size[1],
     offsetHeight |-> IF imgData.height # NoStyle THEN RoundPx(imgData.height) ELSE size[2],
     fixed        |-> FALSE,
     src          |-> imgData.src,
     isSticker    |-> imgData.isSticker,
     width        |-> imgData.width,
     height       |-> imgData.height,
     transform    |-> imgData.transform,
     zIndex       |-> NoStyle]

\* data.images.forEach(createRestoredImageElement) from the i-th image on,
\* the page laying the k-th image out in sizes[k].
RECURSIVE RestoreFrom(_, _, _)
RestoreFrom(images, sizes, i) ==
    IF i > Len(images)
    THEN <<>>
    ELSE <<createRestoredImageElement(images[i], sizes[i])>> \o RestoreFrom(images, sizes, i + 1)

\* The overlays of the page are removed and those of the entry data are
\* restored (journal.js:583-586, 610-613).
RestoreImages(data, sizes) == RestoreFrom(data.images, sizes, 1)

\* The images of the entry stored under key, none without an entry that
\* JSON.parse reads.
StoredImages(store, key) ==
    IF getItem(store, key) = Null \/ JSONparseThrows(getItem(store, key))
    THEN <<>>
    ELSE JSONparse(getItem(store, key)).images

\* loadSavedJournalEntry() on the store, the page showing the overlays els:
\* the overlays after it, and whether JSON.parse threw (journal.js:569),
\* which it does before an overlay is removed.
loadSavedJournalEntry(store, els, sizes) ==
    IF getItem(store, "mukomeJournalEntry") = Null
    THEN [threw |-> FALSE, overlays |-> els]
    ELSE IF JSONparseThrows(getItem(store, "mukomeJournalEntry"))
    THEN [threw |-> TRUE, overlays |-> els]
    ELSE [threw    |-> FALSE,
          overlays |-> RestoreImages(JSONparse(getItem(store, "mukomeJournalEntry")), sizes)]

\* new Date(year, month + 1, 0).getDate() for the month of date: its last day.
LastDayOfMonth(date) == getDate(NewDate(getFullYear(date), getMonth(date) + 1, 0))

\* The date key renderCalendar() makes for the day-th day of the month of date.
CalendarDateKey(date, day) ==
    journal_getLocalDateKey(NewDate(getFullYear(date), getMonth(date), day))

\* JSON.parse throws on the entry renderCalendar() reads for the day
\* (journal.js:657-659).  The store keeps the keys of StorageKeys.
EntryThrows(store, date, day) ==
    /\ JournalKey(CalendarDateKey(date, day)) \in StorageKeys
    /\ JSONparseThrows(getItem(store, JournalKey(CalendarDateKey(date, day))))

\* renderCalendar() with currentDate = date stops at a day in an uncaught
\* exception.
renderCalendarThrows(store, date) ==
    \E day \in 1..LastDayOfMonth(date) : EntryThrows(store, date, day)

\* The day of the calendar rendered for date has a click listener: its
\* entry has a mood of MOODS, and the rendering got as far as the day.
HasEntry(store, date, day) ==
    /\ day \in 1..LastDayOfMonth(date)
    /\ JournalKey(CalendarDateKey(date, day)) \in StorageKeys
    /\ getItem(store, JournalKey(CalendarDateKey(date, day))) # Null
    /\ \A d \in 1..day : ~EntryThrows(store, date, d)
    /\ JSONparse(getItem(store, JournalKey(CalendarDateKey(date, day)))).mood \in MoodLabels

\* The scripts with an uncaught exception after a listener of the journal
\* page has run that threw or did not.
Thrown(scripts, threw) == IF threw THEN scripts \cup {"journal.js"} ELSE scripts

\* What currentElement refers to once every overlay has been taken out of
\* the page: the element it held, now detached.
Detached(cur, els) ==
    IF cur > NoElement
    THEN (IF els[cur].fixed THEN RemovedFixed ELSE Removed)
    ELSE cur

\* The journal page is loaded (or reloaded) and its script is evaluated:
\* the module's variables are set (journal.js:47-55), currentDate to
\* new Date(), and initJournal() is registered for the window's load event
\* (journal.js:856).
LoadJournalPage ==
    /\ currentDate' = now
    /\ journalOpen' = FALSE
    /\ loadPending' = TRUE
    /\ journalSwal' = "none"
    /\ calendar' = NoCalendar
    /\ isDragging' = FALSE
    /\ isResizing' = FALSE
    /\ isRotating' = FALSE
    /\ startAngle' = 0
    /\ startMouseAngle' = 0
    /\ offset' = NoOffset
    /\ currentElement' = NoElement
    /\ overlays' = <<>>
    /\ moveListeners' = <<>>
    /\ uncaught' = uncaught \ {"journal.js"}
    /\ lastOp' = Op("journalScript", FALSE, 0, FALSE, NoArgs)
    /\ UNCHANGED <<now, tz, localStorage, bounds, nonJournalVars, msec>>

\* The window's load event comes: initJournal() calls setupJournalPage(),
\* which sets up the tabs, the upload, the stickers and "Log Entry" and then
\* calls loadSavedJournalEntry(), the page laying the restored images out
\* in sizes.  When JSON.parse throws there, initJournal() ends in the
\* uncaught exception: the listeners set up before it are there, which are
\* all that the page's actions here need; the "View Calendar" button, the
\* document's keydown listener, the mood analysis and the rant page are
\* never set up.
InitJournal(sizes) ==
    /\ loadPending
    /\ Len(sizes) = Len(StoredImages(localStorage, "mukomeJournalEntry"))
    /\ journalOpen' = TRUE
    /\ loadPending' = FALSE
    /\ \E r \in {loadSavedJournalEntry(localStorage, overlays, sizes)} :
        /\ overlays' = r.overlays
        /\ uncaught' = Thrown(uncaught, r.threw)
        /\ lastOp' = Op(IF r.threw THEN "loadJournalThrew" ELSE "loadJournal",
                        FALSE, 0, FALSE, NoArgs)
    /\ UNCHANGED <<now, tz, localStorage, currentDate, journalSwal, calendar, gestureVars,
                   currentElement, bounds, nonJournalVars, msec>>

\* How many times setupCalendar() runs on one page at most.
MaxListeners == 2
\* How many months from today the calendar is taken.
MaxMonths == 2

\* A tab is clicked (journal.js:103-119): its section is displayed, and the
\* calendar tab calls setupCalendar(), which adds one more click listener to
\* each month button.
ClickTab(target, cal) ==
    IF target = "calender"
    THEN [visible |-> TRUE, listeners |-> cal.listeners + 1]
    ELSE [cal EXCEPT !.visible = FALSE]

\* "Log Entry" is clicked with the textarea holding value and the mood title
\* showing mood; a saved entry ends with a click on the calendar tab, whose
\* listener renders the calendar from the store as it is then.
SaveJournalEntry(value, mood) ==
    /\ journalOpen
    /\ calendar.listeners < MaxListeners
    /\ \E r \in {saveJournalEntry(currentDate, value, mood, overlays, localStorage)} :
        /\ localStorage' = r.localStorage
        /\ journalSwal' = IF r.saved THEN "success" ELSE "warning"
        /\ calendar' = IF r.saved THEN ClickTab("calender", calendar) ELSE calendar
        /\ uncaught' = Thrown(uncaught,
                              r.saved /\ renderCalendarThrows(r.localStorage, currentDate))
        /\ lastOp' = Op(IF r.saved THEN "saveJournal" ELSE "saveJournalRejected",
                        FALSE, 0, FALSE, <<value, mood>>)
    /\ UNCHANGED <<now, tz, currentDate, journalOpen, loadPending, dragVars, nonJournalVars, msec>>

\* A day of the displayed calendar that shows an entry's mood is clicked:
\* loadJournalEntryByDate(dateKey).  renderCalendar() has made the days of
\* the month of currentDate clickable whose stored entry has a mood of
\* MOODS; the month and the entries are as they were when it ran, every
\* change of currentDate or of an entry being followed by a rendering or by
\* the calendar's hiding.  The page lays the restored images out in sizes.
LoadJournalEntryByDate(dateKey, sizes) ==
    /\ journalOpen
    /\ calendar.visible
    /\ dateKey[1] = getFullYear(currentDate)
    /\ dateKey[2] = getMonth(currentDate) + 1
    /\ HasEntry(localStorage, currentDate, dateKey[3])
    /\ Len(sizes) = Len(StoredImages(localStorage, JournalKey(dateKey)))
    /\ currentDate' = NewDate(dateKey[1], dateKey[2] - 1, dateKey[3])
    /\ calendar' = ClickTab("journal", calendar)
    /\ overlays' = RestoreImages(JSONparse(getItem(localStorage, JournalKey(dateKey))), sizes)
    /\ currentElement' = Detached(currentElement, overlays)
    /\ lastOp' = Op("loadJournalEntryByDate", FALSE, 0, FALSE, <<dateKey>>)
    /\ UNCHANGED <<now, tz, localStorage, journalOpen, loadPending, journalSwal, gestureVars,
                   bounds, uncaught, nonJournalVars, msec>>

\* ------------------------------------------ the journal's image overlays
\* How many overlays the section holds at most.
MaxOverlays == 2
\* How far an overlay is turned at most, in degrees either way.
MaxAngle == 180
\* How many times startResize adds a listener on one page at most.
MaxResizes == 2

\* The element createImageElement(src, isSticker) appends to the section
\* (journal.js:228-274), before it is centred, the page laying the image
\* out in size = <<width, height>>.
NewImageElement(src, isSticker, size) ==
    [left         |-> Px(100),
     top          |-> Px(100),
     offsetWidth  |-> size[1],
     offsetHeight |-> size[2],
     fixed        |-> FALSE,
     src          |-> src,
     isSticker    |-> isSticker,
     width        |-> NoStyle,
     height       |-> NoStyle,
     transform    |-> NoTransform,
     zIndex       |-> NoStyle]

\* positionElementCenter(element) in the section b: the half and the third
\* of the free width and height, fractions of a pixel kept.
positionElementCenter(element, b) ==
    [element EXCEPT !.left = (b.width - element.offsetWidth) \div 2,
                    !.top = (b.height - element.offsetHeight) \div 3]

\* The width and height of the element's box: the style's where it is set,
\* else the laid-out size.
BoxWidth(el) == IF el.width # NoStyle THEN el.width ELSE el.offsetWidth
BoxHeight(el) == IF el.height # NoStyle THEN el.height ELSE el.offsetHeight

\* The element is turned by an odd number of quarter turns: its box lies on
\* its side.
Turned(el) == el.transform # NoTransform /\ (el.transform[1] \div 90) % 2 = 1

\* The rectangle of the element is a whole number of sixths of a pixel.
RectExact(el) == Turned(el) => (BoxWidth(el) - BoxHeight(el)) % 2 = 0

\* element.getBoundingClientRect() of the overlay el, positioned in the
\* section b and turned about its centre by quarter turns.
getBoundingClientRect(el, b) ==
    IF Turned(el)
    THEN [left   |-> b.left + el.left + (BoxWidth(el) - BoxHeight(el)) \div 2,
          top    |-> b.top + el.top + (BoxHeight(el) - BoxWidth(el)) \div 2,
          width  |-> BoxHeight(el),
          height |-> BoxWidth(el)]
    ELSE [left   |-> b.left + el.left,
          top    |-> b.top + el.top,
          width  |-> BoxWidth(el),
          height |-> BoxHeight(el)]

\* The pointer at pos is on the rectangle.
Inside(pos, rect) ==
    /\ pos.x \in rect.left..(rect.left + rect.width)
    /\ pos.y \in rect.top..(rect.top + rect.height)

\* Where the element is painted in the stack: its z-index, auto as 0.
ZOrder(el) == IF el.zIndex = NoStyle THEN 0 ELSE el.zIndex

\* The overlay a pointer event at pos goes to: of the overlays under the
\* pointer the one painted last, NoElement when none is under it.
HitElement(pos, els, b) ==
    IF \E i \in 1..Len(els) : Inside(pos, getBoundingClientRect(els[i], b))
    THEN CHOOSE i \in 1..Len(els) :
            /\ Inside(pos, getBoundingClientRect(els[i], b))
            /\ \A j \in 1..Len(els) :
                  (j # i /\ Inside(pos, getBoundingClientRect(els[j], b)))
                      => \/ ZOrder(els[j]) < ZOrder(els[i])
                         \/ (ZOrder(els[j]) = ZOrder(els[i]) /\ j < i)
    ELSE NoElement

\* The offset dragStartHandler computes for the pointer position pos and
\* the element's rectangle.
dragStartOffset(pos, rect) == [x |-> pos.x - rect.left, y |-> pos.y - rect.top]

\* dragMoveHandler(e) past its early return: the overlay el with the left
\* and top the handler assigns, for the pointer at pos, the drag's offset
\* off and the section rectangle b.
dragMoveHandler(pos, el, off, b) ==
    Bind(b.width - el.offsetWidth, LAMBDA maxX :
    Bind(b.height - el.offsetHeight, LAMBDA maxY :
        [el EXCEPT !.left = MathMin(maxX, MathMax(0, pos.x - b.left - off.x)),
                   !.top = MathMin(maxY, MathMax(0, pos.y - b.top - off.y))]))

\* Math.atan2(y, x) in quarter turns, for a point on one of the two axes.
atan2(y, x) ==
    IF y = 0 THEN (IF x >= 0 THEN 0 ELSE 2) ELSE IF y > 0 THEN 1 ELSE 0 - 1

\* The pointer at pos is on one of the two axes through the rectangle's
\* centre, at a whole pixel.
OnAxis(pos, rect) ==
    /\ 2 * pos.x = 2 * rect.left + rect.width \/ 2 * pos.y = 2 * rect.top + rect.height
    /\ pos.x % Px(1) = 0
    /\ pos.y % Px(1) = 0

\* Math.atan2(pos.y - centerY, pos.x - centerX) for the rectangle's centre,
\* in quarter turns (the distances are taken twice).
MouseAngle(pos, rect) ==
    atan2(2 * pos.y - (2 * rect.top + rect.height), 2 * pos.x - (2 * rect.left + rect.width))

\* The angle startRotate reads from the element's transform: the first
\* whole number in it, 0 without a transform.
parseAngle(el) == IF el.transform = NoTransform THEN 0 ELSE el.transform[1]

\* rotateElement(e) past its early return: the overlay el with the
\* transform rotate(angle0 + angleDiff * (180 / Math.PI) deg), the gesture
\* having started at the angle angle0 with the pointer at mouse0.
rotateElement(pos, el, b, angle0, mouse0) ==
    [el EXCEPT !.transform =
        <<angle0 + 90 * (MouseAngle(pos, getBoundingClientRect(el, b)) - mouse0)>>]

\* resizeElement(e, aspectRatio) past its early return, for the pointer at
\* pos: the width is set by every listener, the height by one whose
\* aspectRatio is 0 (startResize on an image; on a sticker it is width /
\* height, and the height is left as it is).
resizeElement(pos, el, b, aspectRatio) ==
    Bind(getBoundingClientRect(el, b), LAMBDA rect :
    Bind(MathMax(Px(50), pos.x - rect.left), LAMBDA newWidth :
    Bind(MathMax(Px(50), pos.y - rect.top), LAMBDA newHeight :
    Bind(b.width - RoundPx(el.left), LAMBDA maxWidth :
    Bind(b.height - RoundPx(el.top), LAMBDA maxHeight :
        IF aspectRatio
        THEN [el EXCEPT !.width = MathMin(maxWidth, newWidth),
                        !.offsetWidth = RoundPx(MathMin(maxWidth, newWidth))]
        ELSE [el EXCEPT !.width = MathMin(maxWidth, newWidth),
                        !.offsetWidth = RoundPx(MathMin(maxWidth, newWidth)),
                        !.height = MathMin(maxHeight, newHeight),
                        !.offsetHeight = RoundPx(MathMin(maxHeight, newHeight))])))))

\* A listener of the document's mousemove and touchmove: the function, and
\* for the arrow function startResize makes whether its aspectRatio is not 0.
Listener(fn, aspectRatio) == [fn |-> fn, aspectRatio |-> aspectRatio]
\* The arrow function startResize adds, journal.js:431, 434.
ResizeArrow == "(e) => resizeElement(e, aspectRatio)"

\* document.addEventListener(type, l) for a function l: a function that is
\* a listener already is not added again.
addEventListener(listeners, l) ==
    IF \E k \in 1..Len(listeners) : listeners[k] = l THEN listeners ELSE Append(listeners, l)

\* document.removeEventListener(type, fn)
removeEventListener(listeners, fn) == SelectSeq(listeners, LAMBDA l : l.fn # fn)

\* The listener l is called for the pointer at pos, r.el being the element
\* currentElement refers to: the element after it, whether the listener
\* got past its early return (acted), and whether the element's rectangle
\* and the pointer's angle are whole numbers where the listener reads them.
CallMoveListener(l, pos, r, b) ==
    IF r.el.fixed
    THEN r
    ELSE IF l.fn = "dragMoveHandler"
    THEN (IF isDragging
          THEN [r EXCEPT !.el = dragMoveHandler(pos, r.el, offset, b),
                         !.acted = @ \cup {l.fn}]
          ELSE r)
    ELSE IF l.fn = "rotateElement"
    THEN (IF isRotating
          THEN [r EXCEPT !.el = rotateElement(pos, r.el, b, startAngle, startMouseAngle),
                         !.acted = @ \cup {l.fn},
                         !.exact = @ /\ RectExact(r.el)
                                     /\ OnAxis(pos, getBoundingClientRect(r.el, b))]
          ELSE r)
    ELSE (IF isResizing
          THEN [r EXCEPT !.el = resizeElement(pos, r.el, b, l.aspectRatio),
                         !.acted = @ \cup {l.fn},
                         !.exact = @ /\ RectExact(r.el)]
          ELSE r)

\* The listeners are called in the order they were added.
RECURSIVE RunMoveListeners(_, _, _, _)
RunMoveListeners(listeners, pos, r, b) ==
    IF listeners = <<>>
    THEN r
    ELSE RunMoveListeners(Tail(listeners), pos, CallMoveListener(Head(listeners), pos, r, b), b)

\* History: the name of a pointer move by the listeners that acted.
MoveOp(acted) ==
    IF acted = {} THEN "pointerMoveIgnored"
    ELSE IF acted = {"dragMoveHandler"} THEN "dragMove"
    ELSE IF acted = {"rotateElement"} THEN "rotate"
    ELSE IF acted = {ResizeArrow} THEN "resize"
    ELSE "pointerMove"

\* The element currentElement refers to has the class "fixed"
\* (currentElement?.classList.contains("fixed")).
CurrentFixed ==
    \/ currentElement > NoElement /\ overlays[currentElement].fixed
    \/ currentElement = RemovedFixed

\* An image is uploaded or a sticker is chosen: createImageElement appends
\* the overlay to the section and centres it.
CreateImageElement(src, isSticker, size) ==
    /\ journalOpen
    /\ Len(overlays) < MaxOverlays
    /\ overlays' = Append(overlays,
                          positionElementCenter(NewImageElement(src, isSticker, size), bounds))
    /\ lastOp' = Op("createImage", FALSE, 0, FALSE, <<src>>)
    /\ UNCHANGED <<now, tz, localStorage, currentDate, journalOpen, loadPending, journalSwal,
                   calendar, gestureVars, currentElement, bounds, uncaught, nonJournalVars,
                   msec>>

\* mousedown or touchstart on the delete control of the i-th overlay: the
\* overlay is removed from the page (journal.js:245-248, 532-535).
DeleteImage(i) ==
    /\ journalOpen
    /\ i \in 1..Len(overlays)
    /\ overlays' = RemoveAt(overlays, i)
    /\ currentElement' = IF currentElement = i THEN Detached(currentElement, overlays)
                         ELSE IF currentElement > i THEN currentElement - 1
                         ELSE currentElement
    /\ lastOp' = Op("deleteImage", FALSE, 0, FALSE, <<i>>)
    /\ UNCHANGED <<now, tz, localStorage, currentDate, journalOpen, loadPending, journalSwal,
                   calendar, gestureVars, bounds, uncaught, nonJournalVars, msec>>

\* mousedown or touchstart on the i-th overlay, the pointer at pos on it
\* and on none of its controls: dragStartHandler.
DragStartHandler(i, pos) ==
    /\ journalOpen
    /\ i \in 1..Len(overlays)
    /\ \A j \in 1..Len(overlays) : RectExact(overlays[j])
    /\ i = HitElement(pos, overlays, bounds)
    /\ IF overlays[i].fixed
       THEN /\ lastOp' = Op("dragStartIgnored", FALSE, 0, FALSE, <<i>>)
            /\ UNCHANGED <<isDragging, currentElement, offset, overlays, moveListeners>>
       ELSE /\ isDragging' = TRUE
            /\ currentElement' = i
            /\ offset' = dragStartOffset(pos, getBoundingClientRect(overlays[i], bounds))
            /\ overlays' = [overlays EXCEPT ![i].zIndex = 100]
            /\ moveListeners' = addEventListener(moveListeners, Listener("dragMoveHandler", FALSE))
            /\ lastOp' = Op("dragStart", FALSE, 0, FALSE, <<i>>)
    /\ UNCHANGED <<now, tz, localStorage, currentDate, journalOpen, loadPending, journalSwal,
                   calendar, isResizing, isRotating, startAngle, startMouseAngle, bounds,
                   uncaught, nonJournalVars, msec>>

\* mousedown or touchstart on the lock button of the i-th overlay:
\* toggleFixedState toggles the class "fixed".  The event goes on to the
\* overlay's dragStartHandler, which returns when the overlay is fixed now
\* or the event's target is the button; with the icon inside the button as
\* the target (onIcon) it starts a drag.  The controls of a fixed overlay
\* are hidden and a click on its image shows them.
ToggleFixedState(i, pos, onIcon) ==
    /\ journalOpen
    /\ i \in 1..Len(overlays)
    /\ IF onIcon /\ overlays[i].fixed
       THEN /\ RectExact(overlays[i])
            /\ Inside(pos, getBoundingClientRect(overlays[i], bounds))
            /\ isDragging' = TRUE
            /\ currentElement' = i
            /\ offset' = dragStartOffset(pos, getBoundingClientRect(overlays[i], bounds))
            /\ overlays' = [overlays EXCEPT ![i].fixed = FALSE, ![i].zIndex = 100]
            /\ moveListeners' = addEventListener(moveListeners, Listener("dragMoveHandler", FALSE))
            /\ lastOp' = Op("toggleFixedDragStart", FALSE, 0, FALSE, <<i>>)
       ELSE /\ overlays' = [overlays EXCEPT ![i].fixed = ~overlays[i].fixed]
            /\ lastOp' = Op("toggleFixed", FALSE, 0, FALSE, <<i>>)
            /\ UNCHANGED <<isDragging, currentElement, offset, moveListeners>>
    /\ UNCHANGED <<now, tz, localStorage, currentDate, journalOpen, loadPending, journalSwal,
                   calendar, isResizing, isRotating, startAngle, startMouseAngle, bounds,
                   uncaught, nonJournalVars, msec>>

\* mousedown or touchstart on the rotate control of the i-th overlay, the
\* pointer at pos: startRotate returns when the element currentElement
\* still refers to is fixed.
StartRotate(i, pos) ==
    /\ journalOpen
    /\ i \in 1..Len(overlays)
    /\ IF CurrentFixed
       THEN /\ lastOp' = Op("rotateStartIgnored", FALSE, 0, FALSE, <<i>>)
            /\ UNCHANGED <<isRotating, currentElement, startAngle, startMouseAngle, moveListeners>>
       ELSE /\ RectExact(overlays[i])
            /\ OnAxis(pos, getBoundingClientRect(overlays[i], bounds))
            /\ isRotating' = TRUE
            /\ currentElement' = i
            /\ startAngle' = parseAngle(overlays[i])
            /\ startMouseAngle' = MouseAngle(pos, getBoundingClientRect(overlays[i], bounds))
            /\ moveListeners' = addEventListener(moveListeners, Listener("rotateElement", FALSE))
            /\ lastOp' = Op("rotateStart", FALSE, 0, FALSE, <<i>>)
    /\ UNCHANGED <<now, tz, localStorage, currentDate, journalOpen, loadPending, journalSwal,
                   calendar, isDragging, isResizing, offset, overlays, bounds, uncaught,
                   nonJournalVars, msec>>

\* mousedown or touchstart on the resize control of the i-th overlay:
\* startResize returns when the element currentElement still refers to is
\* fixed; else it adds a new arrow function to the document's listeners.
StartResize(i) ==
    /\ journalOpen
    /\ i \in 1..Len(overlays)
    /\ IF CurrentFixed
       THEN /\ lastOp' = Op("resizeStartIgnored", FALSE, 0, FALSE, <<i>>)
            /\ UNCHANGED <<isResizing, currentElement, moveListeners>>
       ELSE /\ Len(removeEventListener(moveListeners, ResizeArrow))
                    > Len(moveListeners) - MaxResizes
            /\ isResizing' = TRUE
            /\ currentElement' = i
            /\ moveListeners' = Append(moveListeners,
                                       Listener(ResizeArrow, overlays[i].isSticker))
            /\ lastOp' = Op("resizeStart", FALSE, 0, FALSE, <<i>>)
    /\ UNCHANGED <<now, tz, localStorage, currentDate, journalOpen, loadPending, journalSwal,
                   calendar, isDragging, isRotating, startAngle, startMouseAngle, offset,
                   overlays, bounds, uncaught, nonJournalVars, msec>>

\* mousemove or touchmove on the document, the pointer at pos: the
\* listeners of the document are called.  An element that was taken out of
\* the page is changed without the page showing it.
PointerMove(pos) ==
    /\ journalOpen
    /\ moveListeners # <<>>
    /\ IF currentElement > NoElement
       THEN \E r \in {RunMoveListeners(moveListeners, pos,
                                       [el |-> overlays[currentElement], acted |-> {},
                                        exact |-> TRUE], bounds)} :
                /\ r.exact
                /\ r.el.transform # NoTransform =>
                       r.el.transform[1] \in (0 - MaxAngle)..MaxAngle
                /\ overlays' = [overlays EXCEPT ![currentElement] = r.el]
                /\ lastOp' = Op(MoveOp(r.acted), FALSE, 0, FALSE, NoArgs)
       ELSE /\ overlays' = overlays
            /\ lastOp' = Op("pointerMoveIgnored", FALSE, 0, FALSE, NoArgs)
    /\ UNCHANGED <<now, tz, localStorage, currentDate, journalOpen, loadPending, journalSwal,
                   calendar, gestureVars, currentElement, bounds, uncaught, nonJournalVars,
                   msec>>

\* mouseup or touchend on the document: dragEndHandler, stopRotate and
\* stopResize, as far as a gesture of theirs has added them.  The arrow
\* functions of startResize stay listeners (stopResize removes
\* resizeElement, which never was one), and stopRotate and stopResize
\* leave currentElement as it is.
PointerUp ==
    /\ journalOpen
    /\ isDragging \/ isRotating \/ isResizing
    /\ isDragging' = FALSE
    /\ isRotating' = FALSE
    /\ isResizing' = FALSE
    /\ currentElement' = IF isDragging THEN NoElement ELSE currentElement
    /\ overlays' = IF isDragging /\ currentElement > NoElement
                   THEN [overlays EXCEPT ![currentElement].zIndex = 1]
                   ELSE overlays
    /\ moveListeners' =
           removeEventListener(
               removeEventListener(
                   removeEventListener(moveListeners, "dragMoveHandler"),
                   "rotateElement"),
               "resizeElement")
    /\ lastOp' = Op(IF isDragging THEN "dragEnd" ELSE "pointerUp", FALSE, 0, FALSE, NoArgs)
    /\ UNCHANGED <<now, tz, localStorage, currentDate, journalOpen, loadPending, journalSwal,
                   calendar, startAngle, startMouseAngle, offset, bounds, uncaught,
                   nonJournalVars, msec>>

\* The section at the left edge of the viewport or 20 pixels into it.
DragBounds == {DefaultBounds, [DefaultBounds EXCEPT !.left = Px(20)]}
\* Images (width, height): one that fits, one whose free width is odd and
\* whose free height is no multiple of 3, one of the section's size, one
\* wider and one taller than the section.
OverlaySizes ==
    {<<Px(size[1]), Px(size[2])>> :
        size \in {<<100, 60>>, <<101, 61>>, <<300, 210>>, <<400, 90>>, <<120, 270>>}}
\* The src of a sticker (sticker.src) and of an uploaded image (the data
\* URL the FileReader gives).
ImageSrc(isSticker) == IF isSticker THEN "sticker.src" ELSE "event.target.result"
\* Where the pointer can be: left of, inside and right of the section, above,
\* inside and below it.
PointerXs == {Px(x) : x \in {0 - 40, 150, 500}}
PointerYs == {Px(y) : y \in {20, 140, 400}}
Pointers == {[x |-> px, y |-> py] : px \in PointerXs, py \in PointerYs}
\* Where the pointer is moved to from the resize control: into the section
\* and out of it, to the right and below.
ResizePointers == {[x |-> Px(150), y |-> Px(100)], [x |-> Px(500), y |-> Px(400)]}
\* Where the pointer is during a rotation: 80 pixels right of, below, left
\* of and above the centre of the rectangle.
AxisPointers(rect) ==
    {[x |-> (2 * rect.left + rect.width) \div 2 + d[1],
      y |-> (2 * rect.top + rect.height) \div 2 + d[2]] :
        d \in {<<Px(80), 0>>, <<0, Px(80)>>, <<0 - Px(80), 0>>, <<0, 0 - Px(80)>>}}
\* The rectangle of the element currentElement refers to, of the section
\* when it refers to none.
CurrentRect ==
    IF currentElement > NoElement
    THEN getBoundingClientRect(overlays[currentElement], bounds)
    ELSE bounds

DragInit ==
    /\ now = StartInstant
    /\ tz = 330
    /\ localStorage = [k \in StorageKeys |-> Null]
    /\ SleepIdle
    /\ uncaught = {}
    /\ msec = 0
    /\ TodoIdle
    /\ currentDate = 0
    /\ journalOpen = FALSE
    /\ loadPending = FALSE
    /\ journalSwal = "none"
    /\ calendar = NoCalendar
    /\ isDragging = FALSE
    /\ isResizing = FALSE
    /\ isRotating = FALSE
    /\ startAngle = 0
    /\ startMouseAngle = 0
    /\ offset = NoOffset
    /\ currentElement = NoElement
    /\ overlays = <<>>
    /\ moveListeners = <<>>
    /\ bounds \in DragBounds
    /\ QuoteIdle
    /\ TabIdle

\* No gesture is in progress.
NoGesture == ~isDragging /\ ~isResizing /\ ~isRotating
\* The i-th overlay has not been resized or turned.
Plain(i) == overlays[i].width = NoStyle /\ overlays[i].transform = NoTransform
\* Nothing has been dragged or turned on the page.
Untouched == offset = NoOffset /\ startAngle = 0 /\ startMouseAngle = 0

\* Overlays are created, dragged, turned, resized, locked and deleted.
DragNext ==
    \/ LoadJournalPage
    \/ InitJournal(<<>>)
    \/ \E size \in OverlaySizes, isSticker \in BOOLEAN :
            /\ overlays = <<>> /\ Untouched
            /\ CreateImageElement(ImageSrc(isSticker), isSticker, size)
    \/ /\ Len(overlays) = 1 /\ Plain(1) /\ Untouched /\ NoGesture /\ bounds = DefaultBounds
       /\ moveListeners = <<>>
       /\ CreateImageElement(ImageSrc(TRUE), TRUE, <<Px(100), Px(60)>>)
    \/ \E i \in 1..Len(overlays) : DeleteImage(i)
    \/ \E i \in 1..Len(overlays), pos \in Pointers, onIcon \in BOOLEAN :
            NoGesture /\ Plain(i) /\ ToggleFixedState(i, pos, onIcon)
    \/ \E i \in 1..Len(overlays), pos \in Pointers :
            NoGesture /\ Plain(i) /\ DragStartHandler(i, pos)
    \/ \E i \in 1..Len(overlays) :
            \E pos \in AxisPointers(getBoundingClientRect(overlays[i], bounds)) :
                /\ NoGesture /\ Len(overlays) = 1 /\ overlays[i].width = NoStyle
                /\ StartRotate(i, pos)
    \/ \E i \in 1..Len(overlays) :
            /\ NoGesture /\ Len(overlays) = 1 /\ overlays[i].transform = NoTransform
            /\ StartResize(i)
    \/ \E pos \in Pointers : isDragging /\ PointerMove(pos)
    \/ \E pos \in ResizePointers : isResizing /\ PointerMove(pos)
    \/ \E pos \in AxisPointers(CurrentRect) : isRotating /\ PointerMove(pos)
    \/ PointerUp

DragSpec == DragInit /\ [][DragNext]_vars

\* ------------------------------------- the journal's entries in the store
\* The journal and the sleep page on one store, from Sunday 2024-02-25 over
\* JournalHorizonDays days.
JournalStart == StartInstant + MinutesPerDay
JournalEnd == JournalStart + JournalHorizonDays * MinutesPerDay
\* What the textarea can hold: nothing, white space, a text, a text in
\* white space.
JournalTexts == {<<>>, <<" ", "\n">>, <<"h", "i">>, <<" ", "h", "i", "\t">>}
JournalMoods == {"Happy", "Sad"}
\* The sizes the page lays n restored images out in.
RestoredSizes(n) == [1..n -> {<<Px(101), Px(61)>>, <<Px(100), Px(60)>>}]

\* The stores the journal page is opened on: an empty one, one whose last
\* entry is a text that is no JSON, one whose entry of 2024-02-25 is.
JournalStores ==
    {[k \in StorageKeys |-> Null],
     [k \in StorageKeys |-> IF k = "mukomeJournalEntry" THEN Malformed ELSE Null],
     [k \in StorageKeys |-> IF k = JournalKey(<<2024, 2, 25>>) THEN Malformed ELSE Null]}

JournalInit ==
    /\ now = JournalStart
    /\ tz \in {0 - 360, 330}
    /\ localStorage \in JournalStores
    /\ SleepIdle
    /\ uncaught = {}
    /\ msec = 0
    /\ TodoIdle
    /\ JournalIdle
    /\ QuoteIdle
    /\ TabIdle

\* One entry is saved per load of the journal page: a saved entry leaves the
\* calendar displayed, and the page is loaded again before the next.
\* A sticker of 101 x 61 pixels can be put on the page and deleted.
JournalNext ==
    \/ /\ now + MinutesPerDay <= JournalEnd
       /\ AdvanceClock(MinutesPerDay)
    \/ LoadPage
    \/ DOMContentLoaded
    \/ \E s \in {<<>>, <<22, 0>>}, w \in {<<>>, <<6, 30>>} : SaveSleepLog(s, w)
    \/ LoadJournalPage
    \/ \E sizes \in RestoredSizes(Len(StoredImages(localStorage, "mukomeJournalEntry"))) :
            InitJournal(sizes)
    \/ /\ calendar.listeners = 0
       /\ \E value \in JournalTexts, mood \in JournalMoods : SaveJournalEntry(value, mood)
    \/ \E z \in (JournalStart \div MinutesPerDay - 1)..(JournalEnd \div MinutesPerDay + 1) :
            \E sizes \in RestoredSizes(Len(StoredImages(localStorage,
                                                        JournalKey(CivilFromDays[z])))) :
                LoadJournalEntryByDate(CivilFromDays[z], sizes)
    \/ /\ overlays = <<>>
       /\ CreateImageElement(ImageSrc(TRUE), TRUE, <<Px(101), Px(61)>>)
    \/ DeleteImage(1)

JournalSpec == JournalInit /\ [][JournalNext]_vars

\* ------------------------------------------ the home page's quote widget
\* How many elements a response's array holds at most.
MaxElems == 2

\* A JSON property that is absent, or a string.
Absent == <<>>
Str(text) == <<text>>
\* JavaScript's truthiness of such a property: undefined and "" are falsy.
Truthy(v) == v # Absent /\ v # Str("")

Placeholder == "\"Your daily quote goes here.\""
\* The template literal of app.js:187 (its dash written --).
QuoteText(el) == "\"" \o el.q[1] \o "\" -- " \o el.a[1]

\* Mutant of onData: the quote is shown for every array with a first element.
onData_unguarded(data) ==
    IF data.isArray
    THEN IF data.elems = <<>> \/ data.elems[1].isNull
         THEN [threw |-> TRUE, text |-> ""]
         ELSE [threw |-> FALSE,
               text |-> IF Truthy(data.elems[1].q) /\ Truthy(data.elems[1].a)
                        THEN QuoteText(data.elems[1])
                        ELSE "\"undefined\" -- undefined"]
    ELSE [threw |-> FALSE, text |-> Placeholder]

\* The callback of the second then (app.js:185-191) on the parsed data:
\* whether it threw (data[0] undefined or null: a TypeError at data[0].q)
\* and, if not, the text it put into the quote box.
onData(data) ==
    IF data.isArray
    THEN IF data.elems = <<>> \/ data.elems[1].isNull
         THEN [threw |-> TRUE, text |-> ""]
         ELSE IF Truthy(data.elems[1].q) /\ Truthy(data.elems[1].a)
              THEN [threw |-> FALSE, text |-> QuoteText(data.elems[1])]
              ELSE [threw |-> FALSE, text |-> Placeholder]
    ELSE [threw |-> FALSE, text |-> Placeholder]

\* The elements a response's array can hold: null, or an object whose q and
\* a are absent, empty or a text.
Elements ==
    {[isNull |-> TRUE, q |-> Absent, a |-> Absent]} \cup
    {[isNull |-> FALSE, q |-> q, a |-> a] :
        q \in {Absent, Str(""), Str("Be.")}, a \in {Absent, Str(""), Str("Zeno")}}
RECURSIVE SeqsUpTo(_, _)
SeqsUpTo(S, n) ==
    IF n = 0 THEN {<<>>}
    ELSE SeqsUpTo(S, n - 1) \cup
         {Append(q, x) : q \in {r \in SeqsUpTo(S, n - 1) : Len(r) = n - 1}, x \in S}
\* What the request can end in: no response, a body that is not JSON, JSON
\* that is not an array (an object, null, a number), an array.
Outcomes ==
    {[kind |-> "networkError", isArray |-> FALSE, elems |-> <<>>],
     [kind |-> "notJSON", isArray |-> FALSE, elems |-> <<>>],
     [kind |-> "json", isArray |-> FALSE, elems |-> <<>>]} \cup
    {[kind |-> "json", isArray |-> TRUE, elems |-> e] : e \in SeqsUpTo(Elements, MaxElems)}

\* The home page is loaded: DOMContentLoaded finds the quote box and starts
\* the fetch (app.js:180-183).  A reload drops the chain of the page before.
LoadHomePage ==
    /\ msec < MaxClicks
    /\ msec' = msec + 1
    /\ quoteBox' = "initial"
    /\ promise' = [NoPromise EXCEPT !.stage = "fetching"]
    /\ search' = NoSearch
    /\ lastOp' = Op("loadHome", FALSE, 0, FALSE, NoArgs)
    /\ UNCHANGED <<now, tz, localStorage, uncaught, nonHomeVars>>

\* The request ends: fetch's promise is rejected (no response) or fulfilled
\* with a response.
FetchSettles(outcome) ==
    /\ promise.stage = "fetching"
    /\ promise' = [stage |-> IF outcome.kind = "networkError" THEN "rejected" ELSE "response",
                   kind |-> outcome.kind, isArray |-> outcome.isArray, elems |-> outcome.elems]
    /\ lastOp' = Op("fetchSettles", FALSE, 0, FALSE, NoArgs)
    /\ UNCHANGED <<now, tz, localStorage, quoteBox, uncaught, nonQuoteVars, msec>>

\* The first then: res.json() reads the body; its promise is rejected when
\* the body is not JSON.
ResJson ==
    /\ promise.stage = "response"
    /\ promise' = [promise EXCEPT !.stage = IF promise.kind = "notJSON" THEN "rejected" ELSE "data"]
    /\ lastOp' = Op("resJson", FALSE, 0, FALSE, NoArgs)
    /\ UNCHANGED <<now, tz, localStorage, quoteBox, uncaught, nonQuoteVars, msec>>

\* The second then: the callback runs on the data.
ThenData ==
    /\ promise.stage = "data"
    /\ \E r \in {onData(promise)} :
        /\ promise' = [promise EXCEPT !.stage = IF r.threw THEN "rejected" ELSE "settled"]
        /\ quoteBox' = IF r.threw THEN quoteBox ELSE r.text
    /\ lastOp' = Op("thenData", FALSE, 0, FALSE, NoArgs)
    /\ UNCHANGED <<now, tz, localStorage, uncaught, nonQuoteVars, msec>>

\* The catch at the end of the chain (app.js:192-195) handles the
\* rejection of any stage before it.
CatchHandler ==
    /\ promise.stage = "rejected"
    /\ promise' = [promise EXCEPT !.stage = "settled"]
    /\ quoteBox' = Placeholder
    /\ lastOp' = Op("catch", FALSE, 0, FALSE, NoArgs)
    /\ UNCHANGED <<now, tz, localStorage, uncaught, nonQuoteVars, msec>>

QuoteInit ==
    /\ now = StartInstant
    /\ tz \in Zones
    /\ localStorage = [k \in StorageKeys |-> Null]
    /\ SleepIdle
    /\ uncaught = {}
    /\ msec = 0
    /\ TodoIdle
    /\ JournalIdle
    /\ QuoteIdle
    /\ TabIdle

\* The steps of the chain, the browser's work.
QuoteChain ==
    \/ \E outcome \in Outcomes : FetchSettles(outcome)
    \/ ResJson
    \/ ThenData
    \/ CatchHandler

QuoteNext ==
    \/ LoadHomePage
    \/ QuoteChain

\* The request ends at some time (with a response or without) and the
\* browser runs the reactions of a settled promise.
QuoteSpec == QuoteInit /\ [][QuoteNext]_vars /\ WF_vars(QuoteChain)

\* ------------------------------------------------ two tabs on one store
\* The in-memory state of the focused tab's pages, as the other tab's is kept.
ThisTab ==
    [pageOpen |-> pageOpen, initPending |-> initPending, sleepLogs |-> sleepLogs, currentWeek |-> currentWeek,
     viewVars |-> viewVars, state |-> state, todoOpen |-> todoOpen, timers |-> timers,
     taskForm |-> taskForm]

\* The user turns to the other tab: its scripts' variables are the ones the
\* next handlers run on.  The store and the clock are the same for both.
SwitchTab ==
    /\ otherTab' = ThisTab
    /\ pageOpen' = otherTab.pageOpen
    /\ initPending' = otherTab.initPending
    /\ sleepLogs' = otherTab.sleepLogs
    /\ currentWeek' = otherTab.currentWeek
    /\ swal' = otherTab.viewVars[1]
    /\ weeklyStats' = otherTab.viewVars[2]
    /\ chartData' = otherTab.viewVars[3]
    /\ state' = otherTab.state
    /\ todoOpen' = otherTab.todoOpen
    /\ timers' = otherTab.timers
    /\ taskForm' = otherTab.taskForm
    /\ lastOp' = Op("switchTab", FALSE, 0, FALSE, NoArgs)
    /\ UNCHANGED <<now, tz, localStorage, resetLog, dSleep, dWake, dResult, uncaught,
                   journalVars, quoteVars, search, msec>>

\* The days the two tabs are followed over.
TabsHorizonDays == 1
TabsEnd == StartInstant + TabsHorizonDays * MinutesPerDay

TabsInit ==
    /\ now = StartInstant
    /\ tz = 330
    /\ localStorage = [k \in StorageKeys |-> Null]
    /\ SleepIdle
    /\ uncaught = {}
    /\ msec = 0
    /\ TodoIdle
    /\ JournalIdle
    /\ QuoteIdle
    /\ TabIdle

\* Two tabs, each on the sleep page or on the task page (a tab shows one
\* page); a day passes while no tab has a timer pending before its end.
TabsNext ==
    \/ /\ now + MinutesPerDay <= TabsEnd
       /\ \A i \in 1..Len(otherTab.timers) : now + MinutesPerDay <= otherTab.timers[i]
       /\ AdvanceClock(MinutesPerDay)
    \/ /\ ~todoOpen
       /\ LoadPage
    \/ DOMContentLoaded
    \/ \E w \in {<<6, 30>>, <<22, 0>>} : SaveSleepLog(<<22, 0>>, w)
    \/ /\ ~pageOpen
       /\ ~initPending
       /\ LoadTodoPage
    \/ AddQuest({"todo", "daily"})
    \/ \E type \in {"todo", "daily"}, i \in 1..MaxClicks : CompleteTask(type, i)
    \/ \E type \in {"todo", "daily"}, i \in 1..MaxClicks : DeleteTask(type, i)
    \/ SwitchTab

TabsSpec == TabsInit /\ [][TabsNext]_vars

\* --------------------------------------------- the home page's search bar
\* app.js:48-53, the names as sequences of characters
pages ==
    <<[name |-> <<"H", "o", "m", "e">>, path |-> <<"/", "index.html">>],
      [name |-> <<"J", "o", "u", "r", "n", "a", "l">>, path |-> <<"/", "journal.html">>],
      [name |-> <<"T", "a", "s", "k", "s">>, path |-> <<"/", "tasks.html">>],
      [name |-> <<"S", "e", "t", "t", "i", "n", "g", "s">>, path |-> <<"/", "settings.html">>]>>

\* String.prototype.toLowerCase on the letters the model uses.
LowerChar(c) ==
    CASE c = "H" -> "h" [] c = "J" -> "j" [] c = "T" -> "t" [] c = "S" -> "s" [] OTHER -> c
toLowerCase(text) == [i \in 1..Len(text) |-> LowerChar(text[i])]

\* text.includes(part)
includes(text, part) ==
    \E i \in 0..(Len(text) - Len(part)) : SubSeq(text, i + 1, i + Len(part)) = part

\* sanitizeInput(input): the text as the innerHTML of a div holding it, the
\* characters &, < and > written as entities.
EscapeChar(c) ==
    CASE c = "&" -> <<"&", "a", "m", "p", ";">>
      [] c = "<" -> <<"&", "l", "t", ";">>
      [] c = ">" -> <<"&", "g", "t", ";">>
      [] OTHER -> <<c>>
RECURSIVE sanitizeInput(_)
sanitizeInput(input) ==
    IF input = <<>> THEN <<>> ELSE EscapeChar(Head(input)) \o sanitizeInput(Tail(input))

\* The one item showResults puts into the box for an empty result.
NoResultItem == <<"No results found">>

\* showResults(results), hideResults(): the results box after them, its
\* items' texts and its class "hidden".
showResults(results) ==
    [hidden |-> FALSE,
     results |-> IF results = <<>> THEN <<NoResultItem>>
                 ELSE [i \in 1..Len(results) |-> results[i].name]]
hideResults == [hidden |-> TRUE, results |-> <<>>]

\* The callback debounceSearch(query) hands to setTimeout: the results box
\* after it has run.
debounceCallback(query) ==
    Bind(sanitizeInput(trim(query)), LAMBDA sanitizedQuery :
        IF Len(sanitizedQuery) = 0
        THEN hideResults
        ELSE showResults(SelectSeq(pages, LAMBDA page :
                includes(toLowerCase(page.name), toLowerCase(sanitizedQuery)))))

\* text.startsWith(prefix)
startsWith(text, prefix) ==
    Len(text) >= Len(prefix) /\ SubSeq(text, 1, Len(prefix)) = prefix

\* text.substring(0, text.lastIndexOf(piece)) for a piece of length 1: the
\* text before the last piece, nothing when the text holds none.
BeforeLast(text, piece) ==
    IF \E k \in 1..Len(text) : text[k] = piece
    THEN SubSeq(text, 1, (CHOOSE k \in 1..Len(text) :
                             text[k] = piece /\ \A j \in (k + 1)..Len(text) : text[j] # piece) - 1)
    ELSE <<>>

\* window.location of the home page: the origin as one piece of text, and
\* the pathname.
HomeLocation == [origin |-> <<"origin">>, pathname |-> <<"/", "index.html">>]

\* navigateTo(path) on a page at location: the text it assigns to
\* window.location.href.  Texts are sequences of pieces, "/" being a piece
\* of its own and "http" the first piece of a text that starts with it.
navigateTo(path, location) ==
    IF startsWith(path, <<"/">>)
    THEN location.origin \o path
    ELSE IF ~startsWith(path, <<"http">>)
    THEN location.origin \o BeforeLast(location.pathname, "/") \o <<"/">> \o path
    ELSE path

\* The page whose name the i-th item of the results box shows: the page the
\* item's listeners were made for (app.js:75-91).
PageOfItem(results, i) == CHOOSE k \in 1..Len(pages) : pages[k].name = results[i]

\* The results box holds an i-th item that was made for a page, and shows it.
IsResultItem(box, i) ==
    /\ ~box.hidden
    /\ i \in 1..Len(box.results)
    /\ \E k \in 1..Len(pages) : pages[k].name = box.results[i]

\* The home page's script has run.
HomeOpen == promise.stage # "none"

\* An input event on the search bar, its value now value: debounceSearch
\* clears the pending timer and sets one for this value.
SearchInput(value) ==
    /\ HomeOpen
    /\ value # search.value
    /\ search' = [search EXCEPT !.value = value, !.pending = TRUE, !.query = value,
                                !.sinceHide = FALSE]
    /\ lastOp' = Op("input", FALSE, 0, FALSE, <<value>>)
    /\ UNCHANGED <<now, tz, localStorage, uncaught, quoteVars, nonHomeVars, msec>>

\* A focus event on the search bar.
SearchFocus ==
    /\ HomeOpen
    /\ search' = IF trim(search.value) # <<>>
                 THEN [search EXCEPT !.pending = TRUE, !.query = search.value,
                                     !.sinceHide = FALSE]
                 ELSE [search EXCEPT !.sinceHide = FALSE]
    /\ lastOp' = Op("focus", FALSE, 0, FALSE, NoArgs)
    /\ UNCHANGED <<now, tz, localStorage, uncaught, quoteVars, nonHomeVars, msec>>

\* A click outside the search bar and the results box: hideResults().
ClickOutside ==
    /\ HomeOpen
    /\ search' = [search EXCEPT !.hidden = hideResults.hidden,
                                !.results = hideResults.results,
                                !.sinceHide = TRUE]
    /\ lastOp' = Op("clickOutside", FALSE, 0, FALSE, NoArgs)
    /\ UNCHANGED <<now, tz, localStorage, uncaught, quoteVars, nonHomeVars, msec>>

\* Escape is pressed: hideResults(), the search bar emptied and blurred.
PressEscape ==
    /\ HomeOpen
    /\ search' = [search EXCEPT !.hidden = hideResults.hidden,
                                !.results = hideResults.results,
                                !.value = <<>>,
                                !.sinceHide = TRUE]
    /\ lastOp' = Op("escape", FALSE, 0, FALSE, NoArgs)
    /\ UNCHANGED <<now, tz, localStorage, uncaught, quoteVars, nonHomeVars, msec>>

\* 300 ms after the last debounceSearch its timer fires: the callback runs
\* on the query the call was made with.
DebounceFires ==
    /\ HomeOpen
    /\ search.pending
    /\ \E box \in {debounceCallback(search.query)} :
        search' = [search EXCEPT !.hidden = box.hidden, !.results = box.results,
                                 !.pending = FALSE, !.query = <<>>]
    /\ lastOp' = Op("debounce", FALSE, 0, FALSE, NoArgs)
    /\ UNCHANGED <<now, tz, localStorage, uncaught, quoteVars, nonHomeVars, msec>>

\* The i-th item of the results box is clicked (app.js:80-84): navigateTo
\* assigns the page's address to window.location.href, the box is hidden
\* with its items left in it, and the search bar is emptied.  The document's
\* click listener finds the target inside the box and hides nothing.
ResultItemClick(i) ==
    /\ HomeOpen
    /\ IsResultItem(search, i)
    /\ search' = [search EXCEPT
                      !.href = navigateTo(pages[PageOfItem(search.results, i)].path,
                                          HomeLocation),
                      !.hidden = TRUE,
                      !.value = <<>>]
    /\ lastOp' = Op("itemClick", FALSE, 0, FALSE, <<i>>)
    /\ UNCHANGED <<now, tz, localStorage, uncaught, quoteVars, nonHomeVars, msec>>

\* A key goes down on the i-th item of the results box (app.js:85-91):
\* Enter and the blank do what a click does; the event goes on to the
\* document's listener, which on Escape hides and empties the box and
\* empties the search bar.
ResultItemKeydown(i, key) ==
    /\ HomeOpen
    /\ IsResultItem(search, i)
    /\ search' = IF key = "Enter" \/ key = " "
                 THEN [search EXCEPT
                          !.href = navigateTo(pages[PageOfItem(search.results, i)].path,
                                              HomeLocation),
                          !.hidden = TRUE,
                          !.value = <<>>]
                 ELSE IF key = "Escape"
                 THEN [search EXCEPT !.hidden = hideResults.hidden,
                                     !.results = hideResults.results,
                                     !.value = <<>>,
                                     !.sinceHide = TRUE]
                 ELSE search
    /\ lastOp' = Op("itemKeydown", FALSE, 0, FALSE, <<i, key>>)
    /\ UNCHANGED <<now, tz, localStorage, uncaught, quoteVars, nonHomeVars, msec>>

\* What the search bar can hold: nothing, a blank, part of one name, a
\* letter of two names, part of no name, a character that is escaped.
SearchValues == {<<>>, <<" ">>, <<"t", "a">>, <<"T">>, <<"z">>, <<"<">>}
\* The keys pressed on a result item: the two that open it, Escape and one
\* that does nothing.
ItemKeys == {"Enter", " ", "Escape", "Tab"}

SearchNext ==
    \/ LoadHomePage
    \/ \E value \in SearchValues : SearchInput(value)
    \/ SearchFocus
    \/ ClickOutside
    \/ PressEscape
    \/ DebounceFires
    \/ \E i \in 1..Len(pages) : ResultItemClick(i)
    \/ \E i \in 1..Len(pages), key \in ItemKeys : ResultItemKeydown(i, key)

SearchSpec == QuoteInit /\ [][SearchNext]_vars

\* ------------------------------------------- the journal page's calendar
\* date.setMonth(monthValue): the local year, day of the month and time of
\* day kept; a month outside 0..11 moves the year, a day past the month's
\* end runs into the next month.
setMonth(t, monthValue) ==
    NewDate(getFullYear(t) + monthValue \div 12, monthValue % 12, getDate(t))
        + LocalMinuteOfDay(t)

\* A click on a month button runs every listener setupCalendar() has put on
\* it, one after the other: each sets currentDate's month delta further
\* and renders.
RECURSIVE MonthListenersRun(_, _, _)
MonthListenersRun(t, delta, listeners) ==
    IF listeners = 0 THEN t
    ELSE MonthListenersRun(setMonth(t, getMonth(t) + delta), delta, listeners - 1)

\* One of those listeners ends in an uncaught exception of its rendering.
RECURSIVE MonthListenersThrow(_, _, _, _)
MonthListenersThrow(store, t, delta, listeners) ==
    /\ listeners > 0
    /\ \/ renderCalendarThrows(store, setMonth(t, getMonth(t) + delta))
       \/ MonthListenersThrow(store, setMonth(t, getMonth(t) + delta), delta, listeners - 1)

\* The month renderCalendar() shows, counted in months.
MonthIndex(t) == getFullYear(t) * 12 + getMonth(t)

\* The calendar tab is clicked.
ClickCalendarTab ==
    /\ journalOpen
    /\ calendar.listeners < MaxListeners
    /\ calendar' = ClickTab("calender", calendar)
    /\ uncaught' = Thrown(uncaught, renderCalendarThrows(localStorage, currentDate))
    /\ lastOp' = Op("calendarTab", FALSE, 0, FALSE, NoArgs)
    /\ UNCHANGED <<now, tz, localStorage, currentDate, journalOpen, loadPending, journalSwal, dragVars,
                   nonJournalVars, msec>>

\* The journal tab is clicked.
ClickJournalTab ==
    /\ journalOpen
    /\ calendar' = ClickTab("journal", calendar)
    /\ lastOp' = Op("journalTab", FALSE, 0, FALSE, NoArgs)
    /\ UNCHANGED <<now, tz, localStorage, currentDate, journalOpen, loadPending, journalSwal, dragVars,
                   uncaught, nonJournalVars, msec>>

\* The next-month button of the displayed calendar is clicked.
ClickNextMonth ==
    /\ journalOpen
    /\ calendar.visible
    /\ MonthIndex(currentDate) < MonthIndex(now) + MaxMonths
    /\ currentDate' = MonthListenersRun(currentDate, 1, calendar.listeners)
    /\ uncaught' = Thrown(uncaught,
                          MonthListenersThrow(localStorage, currentDate, 1, calendar.listeners))
    /\ lastOp' = Op("nextMonth", FALSE, 0, FALSE, <<MonthIndex(currentDate)>>)
    /\ UNCHANGED <<now, tz, localStorage, journalOpen, loadPending, journalSwal, calendar, dragVars,
                   nonJournalVars, msec>>

\* The previous-month button of the displayed calendar is clicked.
ClickPrevMonth ==
    /\ journalOpen
    /\ calendar.visible
    /\ MonthIndex(currentDate) > MonthIndex(now) - MaxMonths
    /\ currentDate' = MonthListenersRun(currentDate, 0 - 1, calendar.listeners)
    /\ uncaught' = Thrown(uncaught,
                          MonthListenersThrow(localStorage, currentDate, 0 - 1, calendar.listeners))
    /\ lastOp' = Op("prevMonth", FALSE, 0, FALSE, <<MonthIndex(currentDate)>>)
    /\ UNCHANGED <<now, tz, localStorage, journalOpen, loadPending, journalSwal, calendar, dragVars,
                   nonJournalVars, msec>>

\* The page is opened at noon UTC of any day of January, March or December
\* 2024.
CalendarDates ==
    {DaysFromCivil[2024, m, d] * MinutesPerDay + 720 : m \in {1, 3, 12}, d \in 1..31}

\* The stores the calendar is rendered from: an empty one, and one whose
\* entry of 2024-03-01 is a text that is no JSON.
CalendarStores ==
    {[k \in StorageKeys |-> Null],
     [k \in StorageKeys |-> IF k = JournalKey(<<2024, 3, 1>>) THEN Malformed ELSE Null]}

CalendarInit ==
    /\ now \in CalendarDates
    /\ tz \in {0 - 360, 330}
    /\ localStorage \in CalendarStores
    /\ SleepIdle
    /\ uncaught = {}
    /\ msec = 0
    /\ TodoIdle
    /\ JournalIdle
    /\ QuoteIdle
    /\ TabIdle

CalendarNext ==
    \/ LoadJournalPage
    \/ InitJournal(<<>>)
    \/ ClickCalendarTab
    \/ ClickJournalTab
    \/ ClickNextMonth
    \/ ClickPrevMonth

CalendarSpec == CalendarInit /\ [][CalendarNext]_vars

\* =================================================================== claims
\* The stored items, parsed.
StoredLogs == OrElse(JSONparse(getItem(localStorage, "sleepLogs")), <<>>)
StoredWeek == JSONparse(getItem(localStorage, "currentWeek"))
\* This step is a page load / a successful save.
IsLoadStep == lastOp'.op = "load"
IsSaveStep == lastOp'.op = "save"
Last(seq) == seq[Len(seq)]
NoDuplicateDates(logs) ==
    \A i, k \in 1..Len(logs) : logs[i].date = logs[k].date => i = k

\* C1: a store whose marker was written in week W: the first check (page
\* load) after the local clock has passed the next Monday 00:00 empties the
\* sleep logs, in memory and in the store, and stores the new week's key;
\* every further check in that week clears and changes nothing, so there is
\* exactly one reset per week entered.
C1_ResetOncePerWeekCrossing ==
    [][ (IsLoadStep /\ resetLog # <<>>) =>
            IF WeekOf(now) > Last(resetLog)
            THEN /\ sleepLogs' = <<>>
                 /\ getItem(localStorage', "sleepLogs") = JSONstringify(<<>>)
                 /\ getItem(localStorage', "currentWeek") = JSONstringify(weekStartKey(now))
                 /\ StoredWeek # weekStartKey(now)
                 /\ resetLog' = Append(resetLog, WeekOf(now))
            ELSE /\ WeekOf(now) = Last(resetLog)
                 /\ localStorage' = localStorage
                 /\ sleepLogs' = StoredLogs
                 /\ resetLog' = resetLog
      ]_vars

\* C1 witness: a load in a later week has just discarded a non-empty
\* collection, after an earlier week's reset.
C1_Witness ==
    /\ lastOp.op = "load"
    /\ lastOp.reset
    /\ lastOp.cleared > 0
    /\ Len(resetLog) >= 2
    /\ sleepLogs = <<>>

\* C2: checkAndResetWeeklyData clears the logs and rewrites the marker if
\* and only if no marker is stored or the stored marker differs from the
\* current week's key; with an equal marker the in-memory logs, the stored
\* 'sleepLogs' and the stored 'currentWeek' are as before.
C2_ResetIffMarkerDiffers ==
    [][ IsLoadStep =>
            IF StoredWeek = Null \/ StoredWeek # weekStartKey(now)
            THEN /\ sleepLogs' = <<>>
                 /\ currentWeek' = weekStartKey(now)
                 /\ getItem(localStorage', "sleepLogs") = JSONstringify(<<>>)
                 /\ getItem(localStorage', "currentWeek") = JSONstringify(weekStartKey(now))
            ELSE /\ sleepLogs' = StoredLogs
                 /\ sleepLogs' = sleepLogs
                 /\ currentWeek' = StoredWeek
                 /\ getItem(localStorage', "sleepLogs") = getItem(localStorage, "sleepLogs")
                 /\ getItem(localStorage', "currentWeek") = getItem(localStorage, "currentWeek")
      ]_vars

\* C2 witness: a load found the stored marker equal to the week's key and
\* kept a non-empty collection.
C2_Witness ==
    /\ lastOp.op = "load"
    /\ ~lastOp.reset
    /\ sleepLogs # <<>>
    /\ StoredWeek = weekStartKey(now)

\* C3: saveSleepLog on a day that already has a log replaces that log at its
\* index with the new sleepTime, wakeTime and duration; the number of logs
\* and the logs of other dates are unchanged, and the stored 'sleepLogs' is
\* the in-memory collection.
C3_SaveOverwritesInPlace ==
    [][ (IsSaveStep /\ findIndex(sleepLogs, getLocalDateKey(now)) # 0) =>
            LET at == findIndex(sleepLogs, getLocalDateKey(now))
            IN  /\ Len(sleepLogs') = Len(sleepLogs)
                /\ \A k \in 1..Len(sleepLogs) : k # at => sleepLogs'[k] = sleepLogs[k]
                /\ sleepLogs'[at] =
                      [date      |-> getLocalDateKey(now),
                       sleepTime |-> lastOp'.args[1],
                       wakeTime  |-> lastOp'.args[2],
                       duration  |-> calculateDuration(lastOp'.args[1], lastOp'.args[2])]
                /\ getItem(localStorage', "sleepLogs") = JSONstringify(sleepLogs')
      ]_vars

\* C3 witness: today's log, the second of two, has just been overwritten
\* (with 22:00 to 22:00); the log of the earlier day is still the first.
C3_Witness ==
    /\ lastOp.op = "save"
    /\ lastOp.replaced
    /\ lastOp.args = <<(<<22, 0>>), (<<22, 0>>)>>
    /\ Len(sleepLogs) = 2
    /\ sleepLogs[2].date = getLocalDateKey(now)
    /\ sleepLogs[2].duration = 0
    /\ sleepLogs[1].date # getLocalDateKey(now)

\* C4: the sleep-log collection, in memory and stored, holds at most one
\* log per date.
C4_OneLogPerDate ==
    /\ NoDuplicateDates(sleepLogs)
    /\ NoDuplicateDates(StoredLogs)

\* C4 witness: a save on a day that has a log, in a collection of two.
C4_Witness ==
    /\ lastOp.op = "save"
    /\ lastOp.replaced
    /\ Len(sleepLogs) >= 2
    /\ StoredLogs = sleepLogs

\* The minutes from the sleep time to the next occurrence of the wake time
\* (0 when they are equal), by clock arithmetic.
ElapsedMinutes(sleepTime, wakeTime) ==
    (ClockTime(wakeTime) + MinutesPerDay - ClockTime(sleepTime)) % MinutesPerDay

\* C5, as stated: calculateDuration(t, t) is 24.0 hours for every clock
\* time t.  The code returns 0.0: the wrap is taken only when wake < sleep.
C5_EqualTimesGiveFullDay ==
    (dResult # NoResult /\ dSleep = dWake) => dResult = 240

\* C5, amended: calculateDuration(t, t) is 0.0 hours for every clock time t
\* (equal times are not wrapped to the next day).
C5_EqualTimesGiveZero ==
    (dResult # NoResult /\ dSleep = dWake) => dResult = 0

\* C5 witness: calculateDuration("23:00", "23:00") has returned 0.0.
C5_Witness ==
    /\ dSleep = <<23, 0>>
    /\ dWake = <<23, 0>>
    /\ dResult = 0

\* C6, as stated: for wake different from sleep the result is the elapsed
\* time (wake - sleep, or wake + 24h - sleep when wake is earlier) rounded
\* to one decimal, and it is always greater than 0 and less than 24.
C6_DurationStrictlyInsideDay ==
    (dResult # NoResult /\ dSleep # dWake) =>
        /\ 6 * dResult - ElapsedMinutes(dSleep, dWake) \in (0 - 3)..3
        /\ dResult > 0
        /\ dResult < 240

\* C6, amended: for wake different from sleep the result is the elapsed
\* time rounded to one decimal; the elapsed time is more than 0 and less
\* than 24 hours, and the rounded result lies in 0.0 .. 24.0: it is 0.0
\* exactly for 1 or 2 minutes and 24.0 exactly for 23h58 or 23h59.
\* 22:00 to 06:30 gives 8.5 and 09:00 to 17:00 gives 8.0.
C6_DurationRoundedToTenth ==
    (dResult # NoResult /\ dSleep # dWake) =>
        LET elapsed == ElapsedMinutes(dSleep, dWake)
        IN  /\ elapsed = IF ClockTime(dWake) > ClockTime(dSleep)
                         THEN ClockTime(dWake) - ClockTime(dSleep)
                         ELSE ClockTime(dWake) + 24 * 60 - ClockTime(dSleep)
            /\ elapsed \in 1..(24 * 60 - 1)
            /\ 6 * dResult - elapsed \in (0 - 3)..3
            /\ dResult \in 0..240
            /\ dResult = 0 <=> elapsed <= 2
            /\ dResult = 240 <=> elapsed >= 24 * 60 - 2
            /\ (dSleep = <<22, 0>> /\ dWake = <<6, 30>>) => dResult = 85
            /\ (dSleep = <<9, 0>> /\ dWake = <<17, 0>>) => dResult = 80

\* C6 witness: calculateDuration("22:00", "06:30") has returned 8.5, the
\* overnight case.
C6_Witness ==
    /\ dSleep = <<22, 0>>
    /\ dWake = <<6, 30>>
    /\ dResult = 85

\* C7: the week marker checkAndResetWeeklyData stores is the local date key
\* of the Monday that begins the current week, in every time zone.  East of
\* UTC the code stores the date of the Sunday before: toISOString gives the
\* UTC date of local Monday 00:00.
C7_MarkerIsLocalMondayKey ==
    lastOp.op = "load" =>
        /\ StoredWeek = getLocalDateKey(getWeekStartDate(now))
        /\ StoredWeek = CivilFromDays[WeekOf(now)]

\* The instants a week key is compared at: quarter days over two days, then
\* days over two weeks.
SampleInstants ==
    {now + k * 360 : k \in 0..8} \cup {now + k * MinutesPerDay : k \in 3..14}

\* C8: two instants in the same local span [Monday 00:00, next Monday 00:00)
\* have the same week start and the same week key, two instants in
\* different spans have different ones; the week start is local Monday
\* 00:00, 6 days back from a Sunday, 0 from a Monday, 5 from a Saturday.
C8_WeekKeyStableWithinWeek ==
    /\ \A d2 \in SampleInstants :
        /\ (WeekOf(d2) = WeekOf(now)) <=> (weekStartKey(d2) = weekStartKey(now))
        /\ (WeekOf(d2) = WeekOf(now)) <=> (getWeekStartDate(d2) = getWeekStartDate(now))
    /\ LocalDay(now) - LocalDay(getWeekStartDate(now))
            = <<6, 0, 1, 2, 3, 4, 5>>[getDay(now) + 1]
    /\ LocalMinuteOfDay(getWeekStartDate(now)) = 0
    /\ getDay(getWeekStartDate(now)) = 1

\* C8 witness: local Sunday 23:59, the last minute of a span: the key is
\* still the one of six days earlier and changes a minute later.
C8_Witness ==
    /\ getDay(now) = 0
    /\ LocalMinuteOfDay(now) = 24 * 60 - 1
    /\ weekStartKey(now - 6 * MinutesPerDay) = weekStartKey(now)
    /\ weekStartKey(now + 1) # weekStartKey(now)

\* The instants a date key is taken at: the clock reading and the minutes
\* around the half hour after it.
KeyInstants == {now + m : m \in {0, 1, 29, 30, 31}}

\* C9: the date key of the sleep tracker and the date key of the journal
\* are both the local calendar date of the instant, in every zone, and so
\* equal.
C9_DateKeyIsLocalDate ==
    \A t \in KeyInstants :
        LET key == getLocalDateKey(t)
        IN  /\ journal_getLocalDateKey(t) = key
            /\ key[2] \in 1..12
            /\ key[3] \in 1..31
            /\ DaysFromCivil[key[1], key[2], key[3]] = LocalDay(t)
            /\ DaysFromCivil[key[1], key[2], 1] <= LocalDay(t)
            /\ LocalDay(t) < DaysFromCivil[key[1], key[2] + 1, 1]

\* C9 witness: the clock has moved to 23:59 local time west of UTC, where
\* the UTC date is already the next day's.
C9_Witness ==
    /\ lastOp.op = "tick"
    /\ tz < 0
    /\ LocalMinuteOfDay(now) = 24 * 60 - 1
    /\ toISODate(now) # getLocalDateKey(now)
    /\ journal_getLocalDateKey(now) = getLocalDateKey(now)

\* C10: for every content of the collection (empty, partial, logs of other
\* weeks, several logs of one date), getLast7DaysData returns exactly 7
\* slots labelled Mon .. Sun in that order; slot i carries the date key of
\* the week's Monday + i days and the duration of the stored log of that
\* date (of the first of them in the collection when there are several), 0
\* when there is none; and these durations are what the chart shows after
\* updateSleepChart.
C10_SevenSlotsMonToSun ==
    LET slots == getLast7DaysData(now, sleepLogs)
    IN  /\ DOMAIN slots = 1..7
        /\ \A i \in 1..7 :
            /\ slots[i].day = <<"Mon", "Tue", "Wed", "Thu", "Fri", "Sat", "Sun">>[i]
            /\ slots[i].date = CivilFromDays[WeekOf(now) + i - 1]
            /\ IF \E k \in 1..Len(sleepLogs) : sleepLogs[k].date = slots[i].date
               THEN \E k \in 1..Len(sleepLogs) :
                        /\ sleepLogs[k].date = slots[i].date
                        /\ \A h \in 1..(k - 1) : sleepLogs[h].date # slots[i].date
                        /\ slots[i].duration = sleepLogs[k].duration
               ELSE slots[i].duration = 0
            /\ lastOp.op \in {"load", "patternTab", "viewPatterns"} =>
                   chartData[i] = slots[i].duration

\* C10 witness: the weekly pattern tab has been clicked on a collection of
\* three logs: one of another week and two of one date of this week, of 7
\* and of 8.5 hours in this order; the chart shows 7 hours for that day, no
\* 8.5 hours, and the week's slots run over the end of the month.
C10_Witness ==
    LET slots == getLast7DaysData(now, sleepLogs)
    IN  /\ lastOp.op = "patternTab"
        /\ Len(sleepLogs) = 3
        /\ \E k \in 1..3 : \A i \in 1..7 : slots[i].date # sleepLogs[k].date
        /\ \E k \in 1..3, h \in 1..3, i \in 1..7 :
            /\ k < h
            /\ sleepLogs[k].date = sleepLogs[h].date
            /\ sleepLogs[k].date = slots[i].date
            /\ sleepLogs[k].duration = 70
            /\ sleepLogs[h].duration = 85
            /\ chartData[i] = 70
        /\ \A i \in 1..7 : chartData[i] # 85
        /\ \E i \in 1..7 : chartData[i] = 0
        /\ slots[1].date[2] # slots[7].date[2]

\* The logs of the collection whose date lies in the local week of instant t.
LogsOfWeek(t, logs) ==
    {k \in 1..Len(logs) :
        DaysFromCivil[logs[k].date[1], logs[k].date[2], logs[k].date[3]]
            \in WeekOf(t)..(WeekOf(t) + 6)}

\* C11: the 'nights tracked' value updateWeeklyStats writes (the divisor of
\* the weekly average) is the number of days of the current week that have
\* a stored sleep log, for every reachable collection, logs with equal
\* sleep and wake time included.  The code counts the slots whose duration
\* is greater than 0, and a stored log of "0.0" hours is not counted.
C11_NightsTrackedCountsStoredLogs ==
    lastOp.op \in {"load", "viewPatterns"} =>
        weeklyStats.nightsTracked = Cardinality(LogsOfWeek(now, sleepLogs))

\* C12: with a stored item absent or not JSON ('sleepLogs', 'currentWeek',
\* 'questifyData'), start-up falls back to the empty collection or the
\* default state and runs to its end; no script ends in an uncaught
\* exception.  JSON.parse throws on a text that is not JSON, in sleep.js:41-42
\* and in loadFromStorage, and nothing catches it.
C12_StartupFallsBackSilently ==
    /\ uncaught = {}
    /\ lastOp.op # "loadThrew"
    /\ lastOp.op # "loadTodoThrew"
    /\ (lastOp.op = "load" /\ getItem(localStorage, "sleepLogs") \in {Null, Malformed})
            => (pageOpen /\ sleepLogs = <<>>)
    /\ (lastOp.op = "loadTodo" /\ getItem(localStorage, "questifyData") \in {Null, Malformed})
            => (todoOpen /\ state = DefaultState)

\* The journal's per-day keys.
JournalKeys == StorageKeys \ {"sleepLogs", "currentWeek", "questifyData", "mukomeJournalEntry"}

\* C13: a save with a required field missing is blocked.  saveSleepLog with
\* an empty sleep or wake time, and saveJournalEntry with an empty or
\* white-space-only text, open the error (warning) modal and leave the
\* in-memory collection and every stored item as they were; a save with the
\* fields filled is not blocked.
C13_InvalidSaveChangesNothing ==
    [][ /\ lastOp'.op \in {"save", "saveRejected"} =>
            IF lastOp'.args[1] = <<>> \/ lastOp'.args[2] = <<>>
            THEN /\ lastOp'.op = "saveRejected"
                 /\ swal'.icon = "error"
                 /\ sleepLogs' = sleepLogs
                 /\ localStorage' = localStorage
            ELSE /\ lastOp'.op = "save"
                 /\ swal'.icon = "success"
        /\ lastOp'.op \in {"saveJournal", "saveJournalRejected"} =>
            IF \A i \in 1..Len(lastOp'.args[1]) : lastOp'.args[1][i] \in WhiteSpace
            THEN /\ lastOp'.op = "saveJournalRejected"
                 /\ journalSwal' = "warning"
                 /\ sleepLogs' = sleepLogs
                 /\ localStorage' = localStorage
            ELSE /\ lastOp'.op = "saveJournal"
                 /\ journalSwal' = "success"
      ]_vars

\* C13 witness: saveJournalEntry has just refused a white-space-only text,
\* with an entry and a sleep log in the store.
C13_Witness ==
    /\ lastOp.op = "saveJournalRejected"
    /\ lastOp.args[1] = <<" ", "\n">>
    /\ journalSwal = "warning"
    /\ getItem(localStorage, "mukomeJournalEntry") # Null
    /\ StoredLogs # <<>>

\* C16: the entry stored under 'mukomeJournal_<d>' is changed only by a
\* successful saveJournalEntry while the journal's current date is d: no
\* weekly reset or save of the sleep tracker, and no journal save for another
\* date, changes or removes it.
C16_JournalKeyChangedOnlyByItsSave ==
    [][ \A k \in JournalKeys :
            /\ getItem(localStorage, k) # Null => getItem(localStorage', k) # Null
            /\ getItem(localStorage', k) # getItem(localStorage, k) =>
                    /\ lastOp'.op = "saveJournal"
                    /\ k = JournalKey(CivilFromDays[LocalDay(currentDate)])
      ]_vars

\* C16 witness: a weekly reset of the sleep tracker has just discarded a
\* log; Sunday's and Monday's journal entries are both in the store.
C16_Witness ==
    /\ lastOp.op = "load"
    /\ lastOp.reset
    /\ lastOp.cleared > 0
    /\ getItem(localStorage, JournalKey(<<2024, 2, 25>>)) # Null
    /\ getItem(localStorage, JournalKey(<<2024, 2, 26>>)) # Null
    /\ getItem(localStorage, JournalKey(<<2024, 2, 25>>))
            # getItem(localStorage, JournalKey(<<2024, 2, 26>>))

\* C14: while the task page is open exactly one timer is pending, due at the
\* next local midnight; when it fires, at that midnight, every daily gets
\* completed = false, the state is stored, and exactly one timer is armed for
\* the midnight after; todos, habits (streaks included), health, xp and level
\* are as before.
C14_MidnightResetRecurs ==
    [][ /\ todoOpen' =>
            /\ Len(timers') = 1
            /\ LocalMinuteOfDay(timers'[1]) = 0
            /\ timers'[1] - now' \in 1..MinutesPerDay
        /\ lastOp'.op = "midnight" =>
            /\ now' = timers[1]
            /\ LocalMinuteOfDay(now') = 0
            /\ Len(state'.dailies) = Len(state.dailies)
            /\ \A i \in 1..Len(state.dailies) :
                    state'.dailies[i] = [state.dailies[i] EXCEPT !.completed = FALSE]
            /\ state'.todos = state.todos
            /\ state'.habits = state.habits
            /\ state'.health = state.health
            /\ state'.xp = state.xp
            /\ state'.level = state.level
            /\ getItem(localStorage', "questifyData") = JSONstringify(StoredData(state'))
            /\ timers' = <<now' + MinutesPerDay>>
      ]_vars

\* C14 witness: the timer has fired at the second midnight after the start
\* and reset a daily completed since the first; the state holds a todo, a
\* habit with a streak and experience points.
C14_Witness ==
    /\ lastOp.op = "midnight"
    /\ lastOp.cleared > 0
    /\ LocalDay(now) = LocalDay(TodoStart) + 2
    /\ state.todos # <<>>
    /\ state.habits # <<>>
    /\ state.habits[1].streak > 0
    /\ state.xp > 0
    /\ \A i \in 1..Len(state.dailies) : ~state.dailies[i].completed

\* The experience points an operation grants: 3 for an added task, 8, 5 and
\* 2 for a completed todo, daily and habit.
XpGain(op) ==
    IF op.op = "addTask" THEN 3
    ELSE IF op.args[1] = "todo" THEN 8
    ELSE IF op.args[1] = "daily" THEN 5
    ELSE 2

\* C20: every operation that grants experience points checks the level: when
\* the points reach 100 the same operation raises the level by one and sets
\* the points to 0, so no operation ends with 100 points.  handleAddTask
\* grants its 3 points, capped at 100, without the check.
C20_LevelUpOnEveryXpGain ==
    [][ lastOp'.op \in {"addTask", "completeTask"} =>
            /\ state'.xp < 100
            /\ IF state.xp + XpGain(lastOp') >= 100
               THEN /\ state'.level = state.level + 1
                    /\ state'.xp = 0
               ELSE /\ state'.level = state.level
                    /\ state'.xp = state.xp + XpGain(lastOp')
      ]_vars

\* ------------------------------------------------------------------ C18
\* C18: after every dragMoveHandler the overlay's left lies in
\* [0, parentWidth - elementWidth] and its top in
\* [0, parentHeight - elementHeight], for every pointer position and every
\* element size, an element larger than the section included.
C18_OverlayStaysInBounds ==
    (lastOp.op = "dragMove" /\ currentElement > NoElement) =>
        /\ overlays[currentElement].left
               \in 0..(bounds.width - overlays[currentElement].offsetWidth)
        /\ overlays[currentElement].top
               \in 0..(bounds.height - overlays[currentElement].offsetHeight)

\* ------------------------------------------------------------------ C17
\* The response is an array whose first element has both q and a.
HasQuote(p) ==
    /\ p.kind = "json"
    /\ p.isArray
    /\ p.elems # <<>>
    /\ ~p.elems[1].isNull
    /\ Truthy(p.elems[1].q)
    /\ Truthy(p.elems[1].a)

\* C17: for every outcome of the quote fetch the chain comes to its end;
\* at its end the quote box shows the fetched quote when the response is an
\* array whose first element has both q and a, and the static placeholder
\* for every other outcome (network rejection, a body that is not JSON,
\* JSON that is not an array, an empty array, a first element without q or
\* a); the box shows a quote at no other time, and no outcome leaves an
\* unhandled rejection.
C17_QuoteOrPlaceholder ==
    /\ [](promise.stage = "settled" =>
             quoteBox = IF HasQuote(promise) THEN QuoteText(promise.elems[1]) ELSE Placeholder)
    /\ [](quoteBox \in {"initial", Placeholder} \/
             (promise.stage = "settled" /\ HasQuote(promise)))
    /\ []("app.js" \notin uncaught)
    /\ (promise.stage = "fetching" ~> promise.stage = "settled")

\* The chain has ended on an empty array: the TypeError of data[0].q went
\* to the catch, the placeholder is shown.
C17_Witness ==
    /\ promise.stage = "settled"
    /\ promise.kind = "json"
    /\ promise.isArray
    /\ promise.elems = <<>>
    /\ lastOp.op = "catch"
    /\ quoteBox = Placeholder

\* ------------------------------------------------------------------ C15
\* The ids of the tasks of all three lists of a state or of a stored object.
TaskIds(lists) ==
    {lists.todos[i].id : i \in 1..Len(lists.todos)} \cup
    {lists.dailies[i].id : i \in 1..Len(lists.dailies)} \cup
    {lists.habits[i].id : i \in 1..Len(lists.habits)}
\* The steps of the task page that end in saveToStorage().
TodoSaves == {"addTask", "completeTask", "deleteTask"}

\* C15: with two tabs on one store, every save writes the saving tab's
\* whole collection under the shared key, so the last writer wins.  After a
\* save of the sleep page the stored logs are that tab's in-memory logs, and
\* each of them is the log just saved or one the tab held before the save:
\* a log only the other tab had saved is gone.  After a save of the task
\* page the stored object is that tab's state, and every stored task is the
\* task just added or one the tab held before.
C15_LastWriteWins ==
    [][ /\ lastOp'.op = "save" =>
              /\ JSONparse(getItem(localStorage', "sleepLogs")) = sleepLogs'
              /\ \A k \in 1..Len(sleepLogs') :
                     \/ sleepLogs'[k].date = getLocalDateKey(now)
                     \/ \E j \in 1..Len(sleepLogs) : sleepLogs[j] = sleepLogs'[k]
        /\ lastOp'.op \in TodoSaves =>
              /\ JSONparse(getItem(localStorage', "questifyData")) = StoredData(state')
              /\ TaskIds(JSONparse(getItem(localStorage', "questifyData")).tasks)
                     \subseteq TaskIds(state) \cup {<<now, msec>>}
      ]_vars

\* Both tabs have saved and the earlier writer's change is lost: this tab
\* has just saved, the store holds its collection, and the other tab holds
\* a log of another date (a task) that the store holds no more.
C15_Witness ==
    \/ /\ lastOp.op = "save"
       /\ otherTab.pageOpen
       /\ JSONparse(getItem(localStorage, "sleepLogs")) = sleepLogs
       /\ \E j \in 1..Len(otherTab.sleepLogs) :
              \A k \in 1..Len(sleepLogs) : sleepLogs[k].date # otherTab.sleepLogs[j].date
    \/ /\ lastOp.op = "addTask"
       /\ otherTab.todoOpen
       /\ JSONparse(getItem(localStorage, "questifyData")) = StoredData(state)
       /\ TaskIds(otherTab.state) \ TaskIds(state) # {}

\* ------------------------------------------------------------------ C21
\* The object the store holds under 'questifyData', parsed.
StoredQuestify == JSONparse(getItem(localStorage, "questifyData"))

\* C21: the task state survives a save and a reload: when the task page is
\* loaded on a store the page has written, the state after loadFromStorage
\* has exactly the stored todos, dailies, habits, health, xp and level.
C21_StateRoundTrip ==
    [][ (lastOp'.op = "loadTodo" /\ getItem(localStorage, "questifyData") # Null) =>
            /\ state'.todos = StoredQuestify.tasks.todos
            /\ state'.dailies = StoredQuestify.tasks.dailies
            /\ state'.habits = StoredQuestify.tasks.habits
            /\ state'.health = StoredQuestify.health
            /\ state'.xp = StoredQuestify.xp
            /\ state'.level = StoredQuestify.level
      ]_vars

\* ------------------------------------------------------------------ C25
\* The steps of the task page's handlers and of its midnight timer.
TodoOps == {"addTask", "addTaskRejected", "completeTask", "deleteTask", "midnight"}

\* C25: in every state the task page reaches by handleAddTask,
\* completeTask, deleteTask and midnight resets, 0 <= xp <= 100,
\* 0 <= health <= 100 and level >= 1; none of these steps lowers the level;
\* deleting a todo lowers the health by exactly 5, floored at 0, and
\* deleting a daily or a habit leaves the health as it was.
C25_TaskStateInRange ==
    /\ [](/\ state.xp \in 0..100
          /\ state.health \in 0..100
          /\ state.level >= 1)
    /\ [][ /\ lastOp'.op \in TodoOps => state'.level >= state.level
           /\ lastOp'.op = "deleteTask" =>
                state'.health = IF lastOp'.args[1] # "todo" THEN state.health
                                ELSE IF state.health >= 5 THEN state.health - 5
                                ELSE 0
         ]_vars

\* A todo has been deleted and the health is 0, the level above 1.
C25_Witness ==
    /\ lastOp.op = "deleteTask"
    /\ lastOp.args[1] = "todo"
    /\ state.health = 0
    /\ state.level > 1

\* ------------------------------------------------------------------ C26
\* C26: completeTask(type, id), clicked on the i-th task of a list, affects
\* that task only.  A todo is removed from todos; a daily stays in dailies
\* with completed = true, and only a daily that was not completed can be
\* completed (its button is gone until the reset); a habit stays in habits
\* with its streak one higher and is completable again; every other task
\* and the other two lists are as before.
C26_CompleteTouchesOneTask ==
    [][ lastOp'.op = "completeTask" =>
          LET type == lastOp'.args[1]
              i == lastOp'.args[2]
          IN  /\ type = "todo" =>
                    /\ state'.todos = RemoveAt(state.todos, i)
                    /\ state'.dailies = state.dailies
                    /\ state'.habits = state.habits
              /\ type = "daily" =>
                    /\ ~state.dailies[i].completed
                    /\ state'.dailies = [state.dailies EXCEPT ![i].completed = TRUE]
                    /\ state'.todos = state.todos
                    /\ state'.habits = state.habits
              /\ type = "habit" =>
                    /\ state'.habits = [state.habits EXCEPT ![i].streak = @ + 1]
                    /\ ~state'.habits[i].completed
                    /\ state'.todos = state.todos
                    /\ state'.dailies = state.dailies
      ]_vars

\* A daily has been completed while another daily is not, with a todo and a
\* habit in their lists.
C26_Witness ==
    /\ lastOp.op = "completeTask"
    /\ lastOp.args[1] = "daily"
    /\ Len(state.dailies) = 2
    /\ state.dailies[lastOp.args[2]].completed
    /\ \E j \in 1..2 : ~state.dailies[j].completed
    /\ state.todos # <<>>
    /\ state.habits # <<>>

\* ------------------------------------------------------------------ C24
\* The states one completeTask leads to from st: one for each task of st
\* that shows its complete button.
Completions(st) ==
    UNION {{completeTask(st, type, TasksOf(st, type)[i].id) :
                i \in {j \in 1..Len(TasksOf(st, type)) : ~TasksOf(st, type)[j].completed}} :
           type \in TaskTypes}

\* The states a sequence of at most n completeTask operations leads to from
\* st.
RECURSIVE CompletionsWithin(_, _)
CompletionsWithin(st, n) ==
    IF n = 0 THEN {st}
    ELSE {st} \cup UNION {CompletionsWithin(s, n - 1) : s \in Completions(st)}

\* C24: completing quests restores health: from every state of the open
\* task page with health below 100 (health 0 in particular) in which a quest
\* can be completed, some sequence of completeTask operations (of at most
\* MaxCompletions of them) leads to a state with strictly higher health.
C24_CompletingRestoresHealth ==
    (todoOpen /\ state.health < 100 /\ Completions(state) # {}) =>
        \E s \in CompletionsWithin(state, MaxCompletions) : s.health > state.health

\* C24, what the code does: no completeTask changes the health, so no
\* sequence of them, of any length, raises it.
C24_CompleteKeepsHealth ==
    [][ lastOp'.op = "completeTask" => state'.health = state.health ]_vars

\* A quest has been completed at health 0, and a quest can be completed
\* again.
C24_Witness ==
    /\ todoOpen
    /\ lastOp.op = "completeTask"
    /\ state.health = 0
    /\ Completions(state) # {}

\* ------------------------------------------------------------------ C23
\* C23: a daily completed on one calendar day is incomplete, and offers its
\* complete button again, at every time after the next local midnight,
\* whether the task page was open at that midnight or was closed before it
\* and loaded on a later day.  With completions on the first day only: on
\* every later day the open page shows no completed daily.
C23_DailiesIncompleteAfterMidnight ==
    (todoOpen /\ LocalDay(now) > LocalDay(TodoStart)) =>
        \A i \in 1..Len(state.dailies) : ~state.dailies[i].completed

\* ------------------------------------------------------------------ C22
\* C22: a sleep log saved on a day of a week survives every
\* checkAndResetWeeklyData that runs during that week: a page load discards
\* none of the stored logs dated in the local week of the load, also when
\* the page was open across Monday 00:00 before the save.
C22_ResetKeepsThisWeeksLogs ==
    [][ lastOp'.op = "load" =>
            \A k \in 1..Len(StoredLogs) :
                WeekOf(DaysFromCivil[StoredLogs[k].date[1], StoredLogs[k].date[2],
                                     StoredLogs[k].date[3]] * MinutesPerDay - tz) = WeekOf(now)
                => \E j \in 1..Len(sleepLogs') : sleepLogs'[j] = StoredLogs[k]
      ]_vars

\* ------------------------------------------------------------------ C27
\* C27: after Escape or a click outside the search bar has hidden the search
\* results, they stay hidden and empty until the next input or focus event
\* on the search bar, whatever the debounce timer does, an input made less
\* than 300 ms before the Escape included.
C27_ResultsStayHidden ==
    search.sinceHide => (search.hidden /\ search.results = <<>>)

\* ------------------------------------------------------------------ C28
\* C28: calendar month navigation moves by exactly one month: whatever the
\* day of the month of the current date, the next-month button shows the
\* month that follows the one shown, the previous-month button the one
\* before it, and next followed by previous shows the original month again.
C28_MonthNavigation ==
    [][/\ lastOp'.op = "nextMonth"
            => MonthIndex(currentDate') = MonthIndex(currentDate) + 1
       /\ lastOp'.op = "prevMonth"
            => MonthIndex(currentDate') = MonthIndex(currentDate) - 1
       /\ (lastOp.op = "nextMonth" /\ lastOp'.op = "prevMonth")
            => MonthIndex(currentDate') = lastOp.args[1]]_vars

====
